---- MODULE Spec2Model ----
(***************************************************************************)
(* A model of the request-admission and background-scheduling layer of the *)
(* gRPC server: the per-group async task queue (utils/queue_service.py),   *)
(* the sliding-window rate limiter (interceptors/rate_limit_interceptor.py)*)
(* and the hierarchical timeout resolution (config/schema.py,              *)
(* interceptors/timeout_interceptor.py).                                   *)
(*                                                                         *)
(* The three components share no state.  Each has its own specification    *)
(* (SpecQ, SpecRL, SpecTO) over its own variables; the variables of the    *)
(* other components are left unchanged.                                    *)
(*                                                                         *)
(* Scheduling: the code runs on one asyncio event loop, so a coroutine     *)
(* runs without interruption between two suspension points.  An action of  *)
(* the model is the code between two suspension points.                    *)
(***************************************************************************)
EXTENDS Integers, Sequences, FiniteSets, TLC

(***************************************************************************)
(* Bounds of the model.                                                    *)
(***************************************************************************)
\* number of add_task calls that are accepted in one run
MaxTasks == 2
\* last tick of the wall clock read by the queue (datetime.now)
MaxQTime == 1

Groups == {"A", "B"}

\* values tried for the max_concurrent constructor argument.  There is one
\* worker per group, so every value from the number of groups upwards
\* behaves like the number of groups: the semaphore is never exhausted.
ConcurrencyChoices == 1..Cardinality(Groups)

\* task_id = None: add_task generates a uuid4
NoId == -1
\* the id a caller supplies itself (the same one every time it does)
CustomIds == {0}
\* the uuid4 of the n-th accepted submission is n: fresh, never a custom id
TaskIds == 0..(MaxTasks + 1)

\* completed_at = None
NoTime == -1

\* read_max_requests / write_max_requests = None
NoLimit == -1

\* most interceptors a handler is passed through
MaxChain == 2
\* most messages of one AddMessages request
MaxMessages == 2
\* most units of deferred work followed
MaxUnits == 3
\* most sleeps of one wait_for_task call
MaxWait == 2
\* most items a streaming handler yields in one call
MaxItems == 2
\* ticks a call with no timer is followed for: beyond every timeout tried
MaxRun == 3
\* last tick of the monotonic clock read by the rate limiter
MaxRLTime == 3
\* largest max_requests tried
MaxLimit == 2
\* values tried for window_seconds, in ticks
WindowChoices == {1, 2}
\* values tried for read_max_requests: none, or more lenient than the rest
ReadLimitChoices == {NoLimit, MaxLimit}
\* values tried for write_max_requests: none, or a stricter one
WriteLimitChoices == {NoLimit, 1}
\* values tried for _cleanup_interval, in ticks
IntervalChoices == {0, 2}

Clients == {"a", "b"}
\* the client whose outcomes are compared between the two limiters
Observed == "b"
\* timeouts tried, in seconds
TimeoutValues == {0, 30, 120}
\* a setting the configuration does not give
Unset == -1
\* the one service the policy may configure, and one it never configures
ServiceNames == {"Ingest", "Other"}
MethodNames == {"Bulk", "Single"}
\* ServiceTimeoutConfig.default when the entry gives none
ServiceDefaultTimeout == 30
\* what context.time_remaining() can do: return None, raise, or return a number
Remaining ==
    {[kind |-> "absent", v |-> 0], [kind |-> "raises", v |-> 0]}
    \cup {[kind |-> "value", v |-> x] : x \in {-5, 0, 10, 30, 200}}
\* group_id = None in clear_completed_tasks
NoGroup == "*"

VARIABLES
    \* ---- QueueService ----
    running,        \* self._running
    maxConcurrent,  \* the max_concurrent constructor argument
    semValue,       \* free slots of self._semaphore
    tasks,          \* self._tasks: task id -> index into rec, 0 = not registered
    rec,            \* every QueuedTask object ever created, by submission number
    queues,         \* self._queues: group -> FIFO of <<task id, coroutine>>
    wpc,            \* self._workers: group -> position of the worker task
    wTask,          \* worker's local `task` (index into rec, 0 = none)
    wCoro,          \* worker's local `coro` (submission number, 0 = none)
    cancelReq,      \* worker.cancel() was called and not yet delivered
    sdpc,           \* position of the shutdown() call
    sdActive,       \* shutdown's local active_workers
    submitResult,   \* outcome of the last add_task call
    qnow,           \* datetime.now(timezone.utc)
    \* ---- history of the queue (read by properties only) ----
    ustate,         \* what became of the unit of each submission
    procOrder,      \* group -> submissions in the order they entered Processing
    orphaned,       \* group -> live worker tasks self._workers no longer holds
    \* ---- SlidingWindowRateLimiter ----
    rlConfig,       \* self.config (RateLimitConfig), immutable
    cleanupInterval,\* self._cleanup_interval
    rlNow,          \* time.monotonic()
    winKeys,        \* keys of self._windows
    windows,        \* self._windows: client -> ClientWindow.timestamps
    lastCleanup,    \* self._last_cleanup
    \* ---- history of the limiter (read by properties only) ----
    admitted,       \* client -> the times of the admitted checks that lie in
                    \* the trailing window (rlNow - window_seconds, rlNow]
    \* ---- a second limiter that receives the checks of Observed only ----
    hasWindowS,     \* Observed has an entry in the second limiter's registry
    windowS,        \* Observed's timestamps in the second limiter
    outObs,         \* outcome of Observed's last check at the limiter
    outObsS,        \* outcome of the same check at the second limiter
    restoredObs,    \* timestamps that had aged out of Observed's window when
                    \* its last check found the window full, else 0
    scansNow,       \* cleanup scans made at the current time: 0, 1, 2 or more
    writeAdmitted,  \* a write of Observed has been admitted
    \* ---- timeout resolution ----
    toPolicy,       \* the timeout settings as configured
    toCall,         \* the last resolved <<service, method>> and its timeout
    toEff,          \* the last effective-timeout computation
    \* ---- one call through TimeoutInterceptor ----
    tcall,          \* the call: its shape, its timer, the handler, the caller
    \* ---- one call through RateLimitInterceptor ----
    rcall,          \* the call: its shape, client, method and progress
    \* ---- one call of QueueService.wait_for_task ----
    wcall,          \* the call: its locals, its position and what it returned
    \* ---- IngestServiceServicer.AddMessages ----
    bg,             \* the units of deferred work the handler has started
    \* ---- intercept_service of the wrapping interceptors ----
    icall,          \* the handler the continuation gave and the one returned
    \* ---- calls through ErrorInterceptor ----
    ecalls,         \* two calls side by side: what the handler raised and
                    \* what the caller was sent
    \* ---- the server that serve() builds, and one call through it ----
    server,         \* the enabled flags and the list of interceptors
    pcall           \* the call: its credentials, its handler, how far it got

qvars == <<running, maxConcurrent, semValue, tasks, rec, queues, wpc, wTask,
           wCoro, cancelReq, sdpc, sdActive, submitResult, qnow, ustate,
           procOrder, orphaned>>

rlvars == <<rlConfig, cleanupInterval, rlNow, winKeys, windows, lastCleanup,
            admitted, hasWindowS, windowS, outObs, outObsS, restoredObs,
            scansNow, writeAdmitted>>

tovars == <<toPolicy, toCall, toEff>>

\* the components that were added to the model later
xvars == <<wcall, bg, icall, ecalls, server, pcall>>

icvars == <<tcall, rcall, xvars>>

vars == <<qvars, rlvars, tovars, icvars>>

(***************************************************************************)
(* QueueService                                                            *)
(***************************************************************************)

\* dataclass QueuedTask: a new record is PENDING, with no completion time
QueuedTask(id, group_id) ==
    [id |-> id, group_id |-> group_id, status |-> "pending",
     completed_at |-> NoTime, error |-> "none"]

Terminal == {"completed", "failed"}

\* QueueService.__init__
QueueServiceInit(max_concurrent) ==
    /\ running = TRUE
    /\ maxConcurrent = max_concurrent
    /\ semValue = maxConcurrent
    /\ tasks = [i \in TaskIds |-> 0]
    /\ rec = <<>>
    /\ queues = [g \in Groups |-> <<>>]
    /\ wpc = [g \in Groups |-> "none"]
    /\ wTask = [g \in Groups |-> 0]
    /\ wCoro = [g \in Groups |-> 0]
    /\ cancelReq = [g \in Groups |-> FALSE]
    /\ sdpc = "idle"
    /\ sdActive = {}
    /\ submitResult = "none"
    /\ qnow = 0
    /\ ustate = <<>>
    /\ procOrder = [g \in Groups |-> <<>>]
    /\ orphaned = [g \in Groups |-> 0]

\* get_task_status: the status StatusOf reports, "absent" for None
StatusOf(id) == IF tasks[id] = 0 THEN "absent" ELSE rec[tasks[id]].status

\* is_worker_running
is_worker_running(g) == wpc[g] \notin {"none", "done"}

\* add_task without the _running test
AcceptsSubmitAlways == TRUE

\* add_task line 88: a submission is accepted only while _running
AcceptsSubmit == running

\* a worker created at every submission
NeedsWorkerAlways(g) == TRUE

\* add_task line 107: a worker is created when none exists or the last one is done
NeedsWorker(g) == ~is_worker_running(g)

\* the `while self._running` test at the head of the worker loop: the worker
\* either enters wait_for(queue.get()) or leaves the loop and finishes
LoopHead == IF running THEN "get" ELSE "done"

\* a semaphore that never refuses a slot
SemFreeUnbounded == TRUE

\* a semaphore that keeps one slot back
SemFreeReserve == semValue > 1

\* asyncio.Semaphore.acquire returns at once when a slot is free
SemFree == semValue > 0

\* a queue that hands out the newest item first
QueueGetLifo(q) == <<q[Len(q)], SubSeq(q, 1, Len(q) - 1)>>

\* asyncio.Queue.get on a non-empty FIFO: <<the item returned, the items left>>
QueueGet(q) == <<Head(q), Tail(q)>>

\* add_task has no suspension point that yields (the queue is unbounded and
\* self._lock is never held across an await), so it is one step.
add_task(group_id, task_id) ==
    IF ~AcceptsSubmit
    THEN \* raise RuntimeError('Queue service has been shut down')
         /\ submitResult' = "closed"
         /\ UNCHANGED <<running, maxConcurrent, semValue, tasks, rec, queues,
                        wpc, wTask, wCoro, cancelReq, sdpc, sdActive, qnow,
                        ustate, procOrder, orphaned>>
    ELSE /\ LET n == Len(rec) + 1
                tid == IF task_id = NoId THEN n ELSE task_id
            IN /\ rec' = Append(rec, QueuedTask(tid, group_id))
               /\ tasks' = [tasks EXCEPT ![tid] = n]
               /\ queues' = [queues EXCEPT ![group_id] = Append(@, <<tid, n>>)]
               /\ ustate' = Append(ustate, "queued")
               /\ wpc' = IF NeedsWorker(group_id)
                         THEN [wpc EXCEPT ![group_id] = "start"]
                         ELSE wpc
               \* line 108 replaces self._workers[group_id]: a worker task
               \* that is still live then goes on running unreferenced
               /\ orphaned' = IF NeedsWorker(group_id) /\ is_worker_running(group_id)
                              THEN [orphaned EXCEPT ![group_id] = @ + 1]
                              ELSE orphaned
         /\ submitResult' = "ok"
         /\ UNCHANGED <<running, maxConcurrent, semValue, wTask, wCoro,
                        cancelReq, sdpc, sdActive, qnow, procOrder>>

\* the worker task is scheduled for the first time
WorkerBegin(g) ==
    /\ wpc[g] = "start"
    /\ ~cancelReq[g]
    /\ wpc' = [wpc EXCEPT ![g] = LoopHead]
    /\ UNCHANGED <<running, maxConcurrent, semValue, tasks, rec, queues, wTask,
                   wCoro, cancelReq, sdpc, sdActive, submitResult, qnow,
                   ustate, procOrder,
                   orphaned>>

\* lines 145-146 inside `async with self._semaphore`: the slot is taken and
\* the task is marked PROCESSING
EnterProcessing(g, t, n) ==
    /\ semValue' = semValue - 1
    /\ rec' = [rec EXCEPT ![t].status = "processing"]
    /\ wpc' = [wpc EXCEPT ![g] = "run"]
    /\ wTask' = [wTask EXCEPT ![g] = t]
    /\ wCoro' = [wCoro EXCEPT ![g] = n]
    /\ ustate' = [ustate EXCEPT ![n] = "running"]
    /\ procOrder' = [procOrder EXCEPT ![g] = Append(@, n)]

\* queue.get() returns the head of the FIFO; lines 139-144
WorkerPull(g) ==
    /\ wpc[g] = "get"
    /\ ~cancelReq[g]
    /\ queues[g] # <<>>
    /\ LET got == QueueGet(queues[g])
           tid == got[1][1]
           n == got[1][2]
           t == tasks[tid]
       IN /\ queues' = [queues EXCEPT ![g] = got[2]]
          /\ IF t = 0
             THEN \* 'not found in task registry': continue
                  /\ wpc' = [wpc EXCEPT ![g] = LoopHead]
                  /\ ustate' = [ustate EXCEPT ![n] = "skipped"]
                  /\ UNCHANGED <<semValue, rec, wTask, wCoro, procOrder>>
             ELSE IF SemFree
             THEN EnterProcessing(g, t, n)
             ELSE \* suspended in self._semaphore.acquire()
                  /\ wpc' = [wpc EXCEPT ![g] = "sem"]
                  /\ wTask' = [wTask EXCEPT ![g] = t]
                  /\ wCoro' = [wCoro EXCEPT ![g] = n]
                  /\ ustate' = [ustate EXCEPT ![n] = "pulled"]
                  /\ UNCHANGED <<semValue, rec, procOrder>>
    /\ UNCHANGED <<running, maxConcurrent, tasks, cancelReq, sdpc, sdActive,
                   submitResult, qnow,
                   orphaned>>

\* a worker suspended on the semaphore is given a slot
WorkerAcquire(g) ==
    /\ wpc[g] = "sem"
    /\ ~cancelReq[g]
    /\ SemFree
    /\ EnterProcessing(g, wTask[g], wCoro[g])
    /\ UNCHANGED <<running, maxConcurrent, tasks, queues, cancelReq, sdpc,
                   sdActive, submitResult, qnow,
                   orphaned>>

\* a worker that records every finished unit as a success
FinishedRecordSwallowed(r, ok) ==
    [r EXCEPT !.status = "completed", !.completed_at = qnow]

\* what the worker records when the awaited unit returns (lines 151-153) or
\* raises an Exception (lines 162-164; "exception" stands for str(e))
FinishedRecord(r, ok) ==
    [r EXCEPT !.status = IF ok THEN "completed" ELSE "failed",
              !.completed_at = qnow,
              !.error = IF ok THEN @ ELSE "exception"]

\* lines 150-154 and 161-165: the awaited unit returns (ok) or raises
UnitFinish(g, ok) ==
    /\ wpc[g] = "run"
    /\ ~cancelReq[g]
    /\ rec' = [rec EXCEPT ![wTask[g]] = FinishedRecord(@, ok)]
    /\ ustate' = [ustate EXCEPT ![wCoro[g]] = IF ok THEN "completed" ELSE "failed"]
    /\ semValue' = semValue + 1
    /\ wpc' = [wpc EXCEPT ![g] = LoopHead]
    /\ wTask' = [wTask EXCEPT ![g] = 0]
    /\ wCoro' = [wCoro EXCEPT ![g] = 0]
    /\ UNCHANGED <<running, maxConcurrent, tasks, queues, cancelReq, sdpc,
                   sdActive, submitResult, qnow, procOrder,
                   orphaned>>

\* wait_for(queue.get(), timeout=1.0) times out on an empty FIFO
WorkerIdleTimeout(g) ==
    /\ wpc[g] = "get"
    /\ ~cancelReq[g]
    /\ queues[g] = <<>>
    /\ wpc' = [wpc EXCEPT ![g] = "tmo"]
    /\ UNCHANGED <<running, maxConcurrent, semValue, tasks, rec, queues, wTask,
                   wCoro, cancelReq, sdpc, sdActive, submitResult, qnow,
                   ustate, procOrder,
                   orphaned>>

\* a worker that exits on every timeout of its wait
ExitsOnTimeoutAlways(q) == TRUE

\* lines 131-134: after a timeout the worker exits if queue.empty()
ExitsOnTimeout(q) == q = <<>>

\* lines 130-134: the worker resumes with TimeoutError
WorkerTimeoutResume(g) ==
    /\ wpc[g] = "tmo"
    /\ ~cancelReq[g]
    /\ wpc' = [wpc EXCEPT ![g] = IF ExitsOnTimeout(queues[g]) THEN "done"
                                 ELSE LoopHead]
    /\ UNCHANGED <<running, maxConcurrent, semValue, tasks, rec, queues, wTask,
                   wCoro, cancelReq, sdpc, sdActive, submitResult, qnow,
                   ustate, procOrder,
                   orphaned>>

\* a worker with no CancelledError branch records nothing
CancelledRecordUnchanged(r) == r

\* what the worker records when CancelledError is raised in the awaited unit
\* (lines 155-160)
CancelledRecord(r) ==
    [r EXCEPT !.status = "failed", !.completed_at = qnow,
              !.error = "Task was cancelled"]

\* CancelledError is delivered to the worker where it is suspended: in the
\* unit (lines 155-160; the unit lets the error through, as cooperative
\* cancellation requires), in the semaphore's acquire (outside the try block:
\* nothing is recorded), or in wait_for (lines 135-137)
WorkerCancelled(g) ==
    /\ cancelReq[g]
    /\ is_worker_running(g)
    /\ cancelReq' = [cancelReq EXCEPT ![g] = FALSE]
    /\ wpc' = [wpc EXCEPT ![g] = "done"]
    /\ wTask' = [wTask EXCEPT ![g] = 0]
    /\ wCoro' = [wCoro EXCEPT ![g] = 0]
    /\ IF wpc[g] = "run"
       THEN /\ rec' = [rec EXCEPT ![wTask[g]] = CancelledRecord(@)]
            /\ ustate' = [ustate EXCEPT ![wCoro[g]] = "cancelled"]
            /\ semValue' = semValue + 1
       ELSE IF wpc[g] = "sem"
       THEN /\ ustate' = [ustate EXCEPT ![wCoro[g]] = "dropped"]
            /\ UNCHANGED <<rec, semValue>>
       ELSE UNCHANGED <<rec, ustate, semValue>>
    /\ UNCHANGED <<running, maxConcurrent, tasks, queues, sdpc, sdActive,
                   submitResult, qnow, procOrder,
                   orphaned>>

\* a clearing that looks at the tasks of every group
ToRemoveAnyGroup(group_id, max_age) ==
    {id \in TaskIds :
        /\ tasks[id] # 0
        /\ rec[tasks[id]].status \in Terminal
        /\ rec[tasks[id]].completed_at # NoTime
        /\ qnow - rec[tasks[id]].completed_at >= max_age}

\* clear_completed_tasks lines 262-276: tasks_to_remove
ToRemove(group_id, max_age) ==
    {id \in TaskIds :
        /\ tasks[id] # 0
        /\ (group_id = NoGroup \/ rec[tasks[id]].group_id = group_id)
        /\ rec[tasks[id]].status \in Terminal
        /\ rec[tasks[id]].completed_at # NoTime
        /\ qnow - rec[tasks[id]].completed_at >= max_age}

clear_completed_tasks(group_id, max_age) ==
    /\ tasks' = [id \in TaskIds |->
                   IF id \in ToRemove(group_id, max_age) THEN 0 ELSE tasks[id]]
    /\ UNCHANGED <<running, maxConcurrent, semValue, rec, queues, wpc, wTask,
                   wCoro, cancelReq, sdpc, sdActive, submitResult, qnow,
                   ustate, procOrder,
                   orphaned>>

ClearCompleted ==
    \E g \in Groups \cup {NoGroup}, a \in 0..MaxQTime :
        /\ ToRemove(g, a) # {}
        /\ clear_completed_tasks(g, a)

\* shutdown lines 292-300
ShutdownBegin ==
    /\ sdpc = "idle"
    /\ running' = FALSE
    /\ sdActive' = {g \in Groups : is_worker_running(g)}
    /\ sdpc' = IF sdActive' = {} THEN "done" ELSE "waiting"
    /\ UNCHANGED <<maxConcurrent, semValue, tasks, rec, queues, wpc, wTask,
                   wCoro, cancelReq, submitResult, qnow, ustate, procOrder,
                   orphaned>>

\* shutdown lines 309-313: the grace period ends with a worker still live;
\* every active worker that is not done is cancelled
ShutdownTimeout ==
    /\ sdpc = "waiting"
    /\ \E g \in sdActive : is_worker_running(g)
    /\ cancelReq' = [g \in Groups |-> g \in sdActive /\ is_worker_running(g)]
    /\ sdpc' = "cancelling"
    /\ UNCHANGED <<running, maxConcurrent, semValue, tasks, rec, queues, wpc,
                   wTask, wCoro, sdActive, submitResult, qnow, ustate,
                   procOrder,
                   orphaned>>

\* shutdown lines 304-308 and 316-319: the gather of the active workers ends
ShutdownReturn ==
    /\ sdpc \in {"waiting", "cancelling"}
    /\ \A g \in sdActive : ~is_worker_running(g)
    /\ sdpc' = "done"
    /\ sdActive' = {}
    /\ UNCHANGED <<running, maxConcurrent, semValue, tasks, rec, queues, wpc,
                   wTask, wCoro, cancelReq, submitResult, qnow, ustate,
                   procOrder,
                   orphaned>>

\* the wall clock advances
QTick ==
    /\ qnow < MaxQTime
    /\ qnow' = qnow + 1
    /\ UNCHANGED <<running, maxConcurrent, semValue, tasks, rec, queues, wpc,
                   wTask, wCoro, cancelReq, sdpc, sdActive, submitResult,
                   ustate, procOrder,
                   orphaned>>

\* the tasks get_group_stats counts: the registered tasks of the group
GroupTasks(group_id) ==
    {id \in TaskIds : tasks[id] # 0 /\ rec[tasks[id]].group_id = group_id}

CountStatus(group_id, status) ==
    Cardinality({id \in GroupTasks(group_id) : rec[tasks[id]].status = status})

\* get_group_stats
get_group_stats(group_id) ==
    [total |-> Cardinality(GroupTasks(group_id)),
     pending |-> CountStatus(group_id, "pending"),
     processing |-> CountStatus(group_id, "processing"),
     completed |-> CountStatus(group_id, "completed"),
     failed |-> CountStatus(group_id, "failed"),
     queue_size |-> Len(queues[group_id])]

\* the timeout argument of wait_for_task, in sleeps; NoTime for None
WaitTimeouts == {NoTime} \cup (0..(MaxWait - 1))

\* no wait_for_task call was made
NoWait ==
    [pc |-> "idle", id |-> NoId, task |-> 0, timeout |-> NoTime,
     elapsed |-> 0, returned |-> "none",
     snapshot |-> QueuedTask(NoId, NoGroup),
     \* history: the task was Completed or Failed at some time of the call
     reached |-> FALSE]

\* wait_for_task lines 246-253, from the head of the loop to the next
\* suspension or return: the QueuedTask object looked up at the start is
\* returned once it is neither PENDING nor PROCESSING, or once the timeout
\* has elapsed
WaitLoop(w) ==
    IF rec[w.task].status \in {"pending", "processing"}
    THEN IF w.timeout # NoTime /\ w.elapsed >= w.timeout
         THEN [w EXCEPT !.pc = "done", !.returned = "task",
                        !.snapshot = rec[w.task]]
         ELSE [w EXCEPT !.pc = "sleep"]
    ELSE [w EXCEPT !.pc = "done", !.returned = "task",
                   !.snapshot = rec[w.task]]

\* wait_for_task lines 240-246
wait_for_task(task_id, timeout) ==
    /\ wcall.pc = "idle"
    /\ LET w == [NoWait EXCEPT !.id = task_id, !.task = tasks[task_id],
                               !.timeout = timeout]
       IN wcall' = IF w.task = 0
                   THEN [w EXCEPT !.pc = "done", !.returned = "absent"]
                   ELSE [WaitLoop(w) EXCEPT
                            !.reached = rec[w.task].status \in Terminal]
    /\ UNCHANGED qvars

\* `await asyncio.sleep(0.1)` returns: one more sleep has elapsed
WaitWake ==
    /\ wcall.pc = "sleep"
    /\ wcall.elapsed < MaxWait
    /\ wcall' = WaitLoop([wcall EXCEPT !.elapsed = @ + 1])
    /\ UNCHANGED qvars

(***************************************************************************)
(* intercept_service: the dispatch on the shape of the handler             *)
(***************************************************************************)

\* A behaviour is the sequence of the functions a call runs through, the
\* servicer's method first; <<>> stands for None.
NoBehaviour == <<>>
Codecs == {"codec1", "codec2"}
Policies == {"rate_limit", "timeout", "error", "logging", "tracing"}

\* grpc.RpcMethodHandler: the two flags the server dispatches on, the two
\* codecs and the four behaviour attributes
RpcMethodHandler(req_streaming, resp_streaming, deser, ser, uu, us, su, ss) ==
    [absent |-> FALSE,
     request_streaming |-> req_streaming, response_streaming |-> resp_streaming,
     request_deserializer |-> deser, response_serializer |-> ser,
     unary_unary |-> uu, unary_stream |-> us, stream_unary |-> su,
     stream_stream |-> ss]

\* None in place of a handler: the method was not found
AbsentHandler ==
    [RpcMethodHandler(FALSE, FALSE, "None", "None", NoBehaviour, NoBehaviour,
                      NoBehaviour, NoBehaviour) EXCEPT !.absent = TRUE]

\* the four constructors of grpc the wrappers call
unary_unary_rpc_method_handler(behavior, deser, ser) ==
    RpcMethodHandler(FALSE, FALSE, deser, ser, behavior, NoBehaviour,
                     NoBehaviour, NoBehaviour)

unary_stream_rpc_method_handler(behavior, deser, ser) ==
    RpcMethodHandler(FALSE, TRUE, deser, ser, NoBehaviour, behavior,
                     NoBehaviour, NoBehaviour)

stream_unary_rpc_method_handler(behavior, deser, ser) ==
    RpcMethodHandler(TRUE, FALSE, deser, ser, NoBehaviour, NoBehaviour,
                     behavior, NoBehaviour)

stream_stream_rpc_method_handler(behavior, deser, ser) ==
    RpcMethodHandler(TRUE, TRUE, deser, ser, NoBehaviour, NoBehaviour,
                     NoBehaviour, behavior)

\* the handlers a servicer registers, and an object that has none of the
\* four behaviours
ServicerHandlers ==
    UNION {{unary_unary_rpc_method_handler(<<"servicer">>, d, x),
            unary_stream_rpc_method_handler(<<"servicer">>, d, x),
            stream_unary_rpc_method_handler(<<"servicer">>, d, x),
            stream_stream_rpc_method_handler(<<"servicer">>, d, x),
            RpcMethodHandler(FALSE, FALSE, d, x, NoBehaviour, NoBehaviour,
                             NoBehaviour, NoBehaviour)} :
           d \in Codecs, x \in Codecs}

\* wrappers built without the codecs of the handler they wrap
CodecsDropped(handler) == <<"None", "None">>

\* request_deserializer=handler.request_deserializer,
\* response_serializer=handler.response_serializer in every _wrap_* method
CodecsOf(handler) ==
    <<handler.request_deserializer, handler.response_serializer>>

\* the _wrap_unary_unary, _wrap_unary_stream, _wrap_stream_unary and
\* _wrap_stream_stream methods of an interceptor: wrapped_handler calls
\* the original behaviour
wrap_unary_unary(policy, handler) ==
    unary_unary_rpc_method_handler(Append(handler.unary_unary, policy),
                                   CodecsOf(handler)[1], CodecsOf(handler)[2])

wrap_unary_stream(policy, handler) ==
    unary_stream_rpc_method_handler(Append(handler.unary_stream, policy),
                                    CodecsOf(handler)[1], CodecsOf(handler)[2])

wrap_stream_unary(policy, handler) ==
    stream_unary_rpc_method_handler(Append(handler.stream_unary, policy),
                                    CodecsOf(handler)[1], CodecsOf(handler)[2])

wrap_stream_stream(policy, handler) ==
    stream_stream_rpc_method_handler(Append(handler.stream_stream, policy),
                                     CodecsOf(handler)[1], CodecsOf(handler)[2])

\* the if/elif chain every intercept_service ends with
DispatchOnShape(policy, handler) ==
    IF handler.absent THEN handler
    ELSE IF handler.unary_unary # NoBehaviour
    THEN wrap_unary_unary(policy, handler)
    ELSE IF handler.unary_stream # NoBehaviour
    THEN wrap_unary_stream(policy, handler)
    ELSE IF handler.stream_unary # NoBehaviour
    THEN wrap_stream_unary(policy, handler)
    ELSE IF handler.stream_stream # NoBehaviour
    THEN wrap_stream_stream(policy, handler)
    ELSE handler

\* RateLimitInterceptor.intercept_service; bypass: the method is exempt or
\* the limiter disabled
RateLimitIntercept(handler, bypass) ==
    IF bypass THEN handler ELSE DispatchOnShape("rate_limit", handler)

\* TimeoutInterceptor.intercept_service; bypass: _should_skip_timeout
TimeoutIntercept(handler, bypass) ==
    IF bypass THEN handler ELSE DispatchOnShape("timeout", handler)

\* ErrorInterceptor.intercept_service
ErrorIntercept(handler, bypass) == DispatchOnShape("error", handler)

\* LoggingInterceptor.intercept_service
LoggingIntercept(handler, bypass) == DispatchOnShape("logging", handler)

\* TracingInterceptor.intercept_service; bypass: OpenTelemetry is missing
TracingIntercept(handler, bypass) ==
    IF bypass THEN handler ELSE DispatchOnShape("tracing", handler)

InterceptService(policy, handler, bypass) ==
    CASE policy = "rate_limit" -> RateLimitIntercept(handler, bypass)
      [] policy = "timeout" -> TimeoutIntercept(handler, bypass)
      [] policy = "error" -> ErrorIntercept(handler, bypass)
      [] policy = "logging" -> LoggingIntercept(handler, bypass)
      [] policy = "tracing" -> TracingIntercept(handler, bypass)

\* no interceptor has been asked for a handler
NoICall ==
    [depth |-> 0, policy |-> "none", bypass |-> FALSE,
     given |-> AbsentHandler, returned |-> AbsentHandler]

\* the innermost interceptor of a chain calls the continuation, which gives
\* the servicer's handler or None, and returns its own handler
InterceptFirst(policy, handler, bypass) ==
    /\ icall.depth = 0
    /\ icall' = [depth |-> 1, policy |-> policy, bypass |-> bypass,
                 given |-> handler,
                 returned |-> InterceptService(policy, handler, bypass)]

\* the next interceptor outwards: its continuation gives what the
\* interceptor inside it returned
InterceptNext(policy, bypass) ==
    /\ icall.depth \in 1..(MaxChain - 1)
    /\ icall' = [depth |-> icall.depth + 1, policy |-> policy,
                 bypass |-> bypass, given |-> icall.returned,
                 returned |-> InterceptService(policy, icall.returned, bypass)]

(***************************************************************************)
(* ErrorInterceptor                                                        *)
(***************************************************************************)

\* the classes of exception a handler raises: the six that
\* _translate_exception names, grpc.RpcError, and two it does not name
ExcTypes ==
    {"NodeNotFoundError", "EdgeNotFoundError", "ValueError", "PermissionError",
     "NotImplementedError", "TimeoutError", "RpcError", "RuntimeError",
     "KeyError"}

\* what the exception was constructed with
ExcArgs == {"detail1", "detail2"}

Exceptions == [type : ExcTypes, arg : ExcArgs]

\* a text is the sequence of its pieces
\* str(e): the argument; for a KeyError, the repr of the argument
Str(e) == IF e.type = "KeyError" THEN <<"'", e.arg, "'">> ELSE <<e.arg>>

\* _translate_exception line 53: f'Internal error: {e}'
InternalMessage(e) == <<"Internal error: ">> \o Str(e)

\* ErrorInterceptor._translate_exception
translate_exception(e) ==
    IF e.type = "NodeNotFoundError"
    THEN <<"NOT_FOUND", <<"Node not found: ">> \o Str(e)>>
    ELSE IF e.type = "EdgeNotFoundError"
    THEN <<"NOT_FOUND", <<"Edge not found: ">> \o Str(e)>>
    ELSE IF e.type = "ValueError" THEN <<"INVALID_ARGUMENT", Str(e)>>
    ELSE IF e.type = "PermissionError" THEN <<"PERMISSION_DENIED", Str(e)>>
    ELSE IF e.type = "NotImplementedError" THEN <<"UNIMPLEMENTED", Str(e)>>
    ELSE IF e.type = "TimeoutError" THEN <<"DEADLINE_EXCEEDED", Str(e)>>
    ELSE <<"INTERNAL", InternalMessage(e)>>

\* no call has reached the interceptor
NoECall ==
    [pc |-> "idle", raised |-> FALSE,
     exc |-> [type |-> "RpcError", arg |-> "detail1"],
     code |-> "none", message |-> <<>>]

NoECalls == [k \in 1..2 |-> NoECall]

\* the wrapped handler is invoked and awaits the original handler
ECallStart(k) ==
    /\ ecalls[k].pc = "idle"
    /\ ecalls' = [ecalls EXCEPT ![k].pc = "handler"]

\* the original handler returns its response
EHandlerReturn(k) ==
    /\ ecalls[k].pc = "handler"
    /\ ecalls' = [ecalls EXCEPT ![k].pc = "done", ![k].code = "OK"]

\* the original handler raises: a grpc.RpcError is raised again as it is,
\* any other Exception is logged, translated and sent with context.abort
EHandlerRaise(k, e) ==
    /\ ecalls[k].pc = "handler"
    /\ ecalls' = [ecalls EXCEPT
           ![k].pc = "done", ![k].raised = TRUE, ![k].exc = e,
           ![k].code = IF e.type = "RpcError" THEN "reraised"
                       ELSE translate_exception(e)[1],
           ![k].message = IF e.type = "RpcError" THEN <<>>
                          ELSE translate_exception(e)[2]]

(***************************************************************************)
(* serve(): the chain of interceptors, and a call through it               *)
(***************************************************************************)

\* list.insert(idx, x), idx counted from 0
Insert(list, idx, x) ==
    SubSeq(list, 1, idx) \o <<x>> \o SubSeq(list, idx + 1, Len(list))

\* a rate limiter put in front of everything
RateLimitIndexFront(auth_enabled) == 0

\* serve line 159: `1 if config.grpc.auth.enabled else 0`
RateLimitIndex(auth_enabled) == IF auth_enabled THEN 1 ELSE 0

\* a timeout interceptor put in front of the error interceptor
TimeoutIndexBefore(error_idx) == error_idx

\* serve lines 167-171: after the error interceptor
TimeoutIndex(error_idx) == error_idx + 1

\* serve lines 127-174: the list given to grpc.aio.server, whose first
\* element intercepts first
serve(auth_enabled, rate_limit_enabled, timeouts_enabled) ==
    LET l0 == <<"Logging", "Error", "Tracing">>
        l1 == IF auth_enabled THEN Insert(l0, 0, "Auth") ELSE l0
        l2 == IF rate_limit_enabled
              THEN Insert(l1, RateLimitIndex(auth_enabled), "RateLimit")
              ELSE l1
        error_idx == (CHOOSE i \in DOMAIN l2 : l2[i] = "Error") - 1
    IN IF timeouts_enabled
       THEN Insert(l2, TimeoutIndex(error_idx), "Timeout")
       ELSE l2

\* the methods of the calls that reach the server
ServedMethods ==
    {<<"/", "grpc.health.v1.Health", "/", "Check">>,
     <<"/", "graphiti.v1.IngestService", "/", "AddEpisode">>,
     <<"/", "graphiti.v1.RetrieveService", "/", "Search">>}

\* AuthInterceptor.HEALTH_CHECK_METHODS, for the paths of the model
HEALTH_CHECK_METHODS == {<<"/", "grpc.health.v1.Health", "/", "Check">>}

\* RateLimitConfig.__post_init__, for the paths of the model: the defaults
\* are set when the list given is empty
post_init(configured) ==
    IF configured = {}
    THEN {<<"/", "grpc.health.v1.Health", "/", "Check">>}
    ELSE configured

\* serve: the interceptors and the settings they are built with.
\* RateLimitInterceptor.__init__ hands `skip_methods or []` to
\* RateLimitConfig.
Server(auth_enabled, rate_limit_enabled, timeouts_enabled, skip_health_check, configured) ==
    [auth |-> auth_enabled, rate_limit |-> rate_limit_enabled,
     timeouts |-> timeouts_enabled,
     skip_health_check |-> skip_health_check,
     configured |-> configured,
     skip_methods |-> post_init(configured),
     interceptors |-> serve(auth_enabled, rate_limit_enabled, timeouts_enabled)]

\* what the call carries: a key or token that verifies, one that does not,
\* or nothing
Credentials == {"valid", "invalid", "none"}

\* intercept_service from the i-th interceptor inwards: the wrappers put
\* around the handler, outermost first, and the handler inside them.
\* AuthInterceptor calls the continuation for a health check it is set to
\* skip and for credentials that verify, and otherwise returns its own
\* UNAUTHENTICATED handler without calling the continuation;
\* RateLimitInterceptor returns what the continuation gives for a method of
\* its skip list; every other interceptor wraps what its continuation
\* returns.
RECURSIVE Intercept(_, _, _, _)
Intercept(srv, i, creds, method) ==
    IF i > Len(srv.interceptors) THEN [wrappers |-> <<>>, base |-> "servicer"]
    ELSE IF srv.interceptors[i] = "Auth"
    THEN IF \/ srv.skip_health_check /\ method \in HEALTH_CHECK_METHODS
            \/ creds = "valid"
         THEN Intercept(srv, i + 1, creds, method)
         ELSE [wrappers |-> <<>>, base |-> "unauthenticated"]
    ELSE IF srv.interceptors[i] = "RateLimit" /\ method \in srv.skip_methods
    THEN Intercept(srv, i + 1, creds, method)
    ELSE LET inner == Intercept(srv, i + 1, creds, method)
         IN [inner EXCEPT !.wrappers = <<srv.interceptors[i]>> \o @]

\* no call has reached the server
NoPCall ==
    [pc |-> "idle", client |-> "none", creds |-> "none",
     method |-> <<>>, wrappers |-> <<>>, base |-> "servicer", depth |-> 0,
     status |-> "none", through |-> {}, translated |-> FALSE]

\* an exception raised inside the wrapper at position `depth` passes
\* through every wrapper outside it; ErrorInterceptor's wrapper translates
\* whatever is not a grpc.RpcError
Raised(c, depth, status) ==
    LET outer == {c.wrappers[i] : i \in 1..(depth - 1)}
    IN [c EXCEPT !.pc = "done", !.through = outer,
                 !.translated = "Error" \in outer,
                 !.status = IF status = "exception"
                            THEN IF "Error" \in outer THEN "INTERNAL"
                                 ELSE "UNKNOWN"
                            ELSE status]

(***************************************************************************)
(* IngestServiceServicer.AddMessages                                       *)
(***************************************************************************)

\* the unit of work made for one message: graphiti.add_episode(...) handed
\* to asyncio.create_task, whose handle is dropped
DeferredUnit(group_id) == [group |-> group_id, state |-> "scheduled"]

RECURSIVE DeferredUnits(_, _)
DeferredUnits(group_id, count) ==
    IF count = 0 THEN <<>>
    ELSE Append(DeferredUnits(group_id, count - 1), DeferredUnit(group_id))

\* AddMessages lines 200-234: the loop over request.messages has no
\* suspension point; every message becomes a task of the event loop and
\* the response reports them as queued
AddMessages(group_id, count) ==
    /\ Len(bg) + count <= MaxUnits
    /\ bg' = bg \o DeferredUnits(group_id, count)
    /\ UNCHANGED <<qvars, wcall>>

\* the event loop runs a created task up to its first suspension; created
\* tasks are started in the order of their creation
UnitStart(i) ==
    /\ bg[i].state = "scheduled"
    /\ \A j \in 1..(i - 1) : bg[j].state # "scheduled"
    /\ bg' = [bg EXCEPT ![i].state = "running"]
    /\ UNCHANGED <<qvars, wcall>>

\* add_episode returns or raises; nothing awaits the task, so an exception
\* stays in the dropped task object
UnitEnd(i, ok) ==
    /\ bg[i].state = "running"
    /\ bg' = [bg EXCEPT ![i].state = IF ok THEN "returned" ELSE "raised"]
    /\ UNCHANGED <<qvars, wcall>>

(***************************************************************************)
(* SlidingWindowRateLimiter                                                *)
(***************************************************************************)

\* RateLimitConfig as SlidingWindowRateLimiter reads it
RateLimitConfig(enabled, window_seconds, max_requests, read_max, write_max) ==
    [enabled |-> enabled, window_seconds |-> window_seconds,
     max_requests |-> max_requests, read_max_requests |-> read_max,
     write_max_requests |-> write_max]

\* SlidingWindowRateLimiter.__init__
LimiterInit(config, interval) ==
    /\ rlConfig = config
    /\ cleanupInterval = interval
    /\ rlNow = 0
    /\ winKeys = {}
    /\ windows = [c \in Clients |-> <<>>]
    /\ lastCleanup = 0
    /\ admitted = [c \in Clients |-> <<>>]
    /\ hasWindowS = FALSE
    /\ windowS = <<>>
    /\ outObs = "none"
    /\ outObsS = "none"
    /\ restoredObs = 0
    /\ scansNow = 0
    /\ writeAdmitted = FALSE

\* a limiter that holds every check against max_requests
ApplicableLimitGlobal(is_read) == rlConfig.max_requests

\* is_allowed lines 83-88: the limit the check is made against
ApplicableLimit(is_read) ==
    IF is_read /\ rlConfig.read_max_requests # NoLimit
    THEN rlConfig.read_max_requests
    ELSE IF ~is_read /\ rlConfig.write_max_requests # NoLimit
    THEN rlConfig.write_max_requests
    ELSE rlConfig.max_requests

\* one window shared by every client
WindowKeyShared(client_id) == "a"

\* is_allowed line 90: the window of a client is the registry entry of its id
WindowKey(client_id) == client_id

\* a window that keeps the timestamp that is exactly W old
InWindowInclusive(ts, now) == ts >= now - rlConfig.window_seconds

\* is_allowed lines 94-97: the timestamps that are still inside the window
InWindow(ts, now) == ts > now - rlConfig.window_seconds

\* a check that removes nothing from the window
PruneNothing(timestamps, now) == timestamps

Prune(timestamps, now) == SelectSeq(timestamps, LAMBDA ts : InWindow(ts, now))

\* the limit test off by one
AtLimitOffByOne(count, max_requests) == count > max_requests

\* is_allowed line 100
AtLimit(count, max_requests) == count >= max_requests

\* a limiter that records the time of a rejected check as well
RefusedRecorded(kept, now) == Append(kept, now)

\* is_allowed lines 100-101: `return False` leaves the pruned window as it is
Refused(kept, now) == kept

\* is_allowed lines 92-105 on one window: <<allowed, the window afterwards>>
CheckWindow(timestamps, now, max_requests) ==
    LET kept == Prune(timestamps, now)
    IN IF AtLimit(Len(kept), max_requests)
       THEN <<FALSE, Refused(kept, now)>>
       ELSE <<TRUE, Append(kept, now)>>

Outcome(allowed) == IF allowed THEN "admit" ELSE "reject"

\* is_allowed: one step (the per-client lock is never held across an await).
\* The second limiter makes the same check when the client is Observed.
is_allowed(client_id, is_read) ==
    IF ~rlConfig.enabled
    THEN /\ outObs' = IF client_id = Observed THEN "admit" ELSE outObs
         /\ outObsS' = IF client_id = Observed THEN "admit" ELSE outObsS
         /\ UNCHANGED <<rlConfig, cleanupInterval, rlNow, winKeys, windows,
                        lastCleanup, admitted, hasWindowS, windowS,
                        restoredObs, scansNow, writeAdmitted>>
    ELSE LET k == WindowKey(client_id)
             r == CheckWindow(windows[k], rlNow, ApplicableLimit(is_read))
             rS == CheckWindow(windowS, rlNow, ApplicableLimit(is_read))
         IN /\ winKeys' = winKeys \cup {k}
            /\ windows' = [windows EXCEPT ![k] = r[2]]
            /\ admitted' = IF r[1]
                           THEN [admitted EXCEPT ![client_id] =
                                    Append(@, rlNow)]
                           ELSE admitted
            /\ IF client_id = Observed
               THEN /\ writeAdmitted' = (writeAdmitted \/ (r[1] /\ ~is_read))
                    /\ hasWindowS' = TRUE
                    /\ windowS' = rS[2]
                    /\ outObs' = Outcome(r[1])
                    /\ outObsS' = Outcome(rS[1])
                    /\ restoredObs' =
                          IF Len(windows[k]) = ApplicableLimit(is_read)
                          THEN Len(windows[k]) - Len(Prune(windows[k], rlNow))
                          ELSE 0
               ELSE UNCHANGED <<hasWindowS, windowS, outObs, outObsS,
                                restoredObs, writeAdmitted>>
            /\ UNCHANGED <<rlConfig, cleanupInterval, rlNow, lastCleanup,
                           scansNow>>

Max(S) == CHOOSE x \in S : \A y \in S : y <= x

SeqRange(q) == {q[i] : i \in DOMAIN q}

\* a cleanup that takes every window for stale
IsStaleAlways(timestamps, now) == TRUE

\* _maybe_cleanup line 129: a window with no timestamp, or whose latest
\* timestamp is before the cutoff
IsStale(timestamps, now) ==
    \/ timestamps = <<>>
    \/ Max(SeqRange(timestamps)) < now - rlConfig.window_seconds

Stale(keys, wins, now) == {c \in keys : IsStale(wins[c], now)}

\* _maybe_cleanup: one step (no await inside the cleanup lock).  It is not
\* reached from is_allowed, whose `async with` block returns on both paths
\* before line 108; it runs when it is called directly.
\* a cleanup that is never throttled
TooSoonNever(now) == FALSE

\* _maybe_cleanup lines 114 and 119: the interval has not elapsed.  Both
\* tests compare the same current_time, and nothing runs between them (the
\* cleanup lock is free whenever it is requested).
TooSoon(now) == now - lastCleanup < cleanupInterval

maybe_cleanup ==
    IF TooSoon(rlNow)
    THEN UNCHANGED rlvars
    ELSE /\ lastCleanup' = rlNow
         /\ scansNow' = IF scansNow < 2 THEN scansNow + 1 ELSE scansNow
         /\ winKeys' = winKeys \ Stale(winKeys, windows, rlNow)
         /\ windows' = [c \in Clients |->
                          IF c \in Stale(winKeys, windows, rlNow)
                          THEN <<>> ELSE windows[c]]
         /\ hasWindowS' = (hasWindowS /\ ~IsStale(windowS, rlNow))
         /\ windowS' = IF IsStale(windowS, rlNow) THEN <<>> ELSE windowS
         /\ UNCHANGED <<rlConfig, cleanupInterval, rlNow, admitted, outObs,
                        outObsS, restoredObs, writeAdmitted>>

\* the monotonic clock advances
RLTick ==
    /\ rlNow < MaxRLTime
    /\ rlNow' = rlNow + 1
    /\ scansNow' = 0
    /\ admitted' = [c \in Clients |->
                      SelectSeq(admitted[c],
                                LAMBDA t : rlNow' - rlConfig.window_seconds < t)]
    /\ UNCHANGED <<rlConfig, cleanupInterval, winKeys, windows, lastCleanup,
                   hasWindowS, windowS, outObs, outObsS, restoredObs,
                   writeAdmitted>>

(***************************************************************************)
(* RateLimitInterceptor                                                    *)
(***************************************************************************)

\* A method path is the sequence of its pieces: "/" and the names between
\* the slashes.  No name contains a slash, and no two names written one
\* after the other spell a third.
MethodPaths ==
    {<<"/", "graphiti.v1.RetrieveService", "/", "Search">>,
     <<"/", "graphiti.v1.IngestService", "/", "AddEpisode">>,
     <<"Search">>,
     <<"/", "Search", "/", "AddEpisode">>,
     <<"/", "graphiti.v1.RetrieveService", "/", "Search", "/">>,
     <<"/", "grpc.health.v1.Health", "/", "Check">>}

\* RateLimitInterceptor.READ_METHODS
READ_METHODS ==
    {"Search", "GetEntity", "GetEntities", "GetRelation", "GetRelations",
     "GetEpisode", "GetEpisodes", "GetEntityEdge", "GetNode", "GetEdge",
     "GetServerStatus", "GetConfig"}

\* RateLimitConfig.skip_methods as __post_init__ leaves it, for the paths
\* of the model
skip_methods == {<<"/", "grpc.health.v1.Health", "/", "Check">>}

\* positions of "/" in a path
Slashes(method) == {i \in DOMAIN method : method[i] = "/"}

\* method.rsplit('/', 1)[-1]: what follows the last "/"
RSplitLast(method) ==
    SubSeq(method, Max(Slashes(method)) + 1, Len(method))

\* a classification by the first name of the path
is_read_operation_first(method) ==
    \E i \in DOMAIN method :
        /\ method[i] # "/"
        /\ \A j \in 1..(i - 1) : method[j] = "/"
        /\ method[i] \in READ_METHODS

\* RateLimitInterceptor._is_read_operation
is_read_operation(method) ==
    LET method_name == IF Slashes(method) # {} THEN RSplitLast(method)
                       ELSE method
    IN Len(method_name) = 1 /\ method_name[1] \in READ_METHODS

\* an interceptor with no exempt method
should_skip_never(method) == FALSE

\* RateLimitInterceptor._should_skip_method
should_skip_method(method) == method \in skip_methods

\* the value is_allowed returns
Allowed(client_id, is_read) ==
    \/ ~rlConfig.enabled
    \/ CheckWindow(windows[WindowKey(client_id)], rlNow,
                   ApplicableLimit(is_read))[1]

\* SlidingWindowRateLimiter.get_client_usage at the time `now`
get_client_usage(client_id, now) ==
    LET window == IF client_id \in winKeys THEN windows[client_id] ELSE <<>>
        current_count == Len(SelectSeq(window, LAMBDA ts : InWindow(ts, now)))
    IN <<current_count, rlConfig.max_requests>>

\* no call has reached the interceptor
NoRCall ==
    [pc |-> "idle", shape |-> "none", client |-> "none", method |-> <<>>,
     wrapped |-> FALSE, is_read |-> FALSE, limit |-> NoLimit,
     allowed |-> TRUE, invoked |-> 0, aborts |-> <<>>, result |-> "none",
     msg_limit |-> NoLimit, msg_window |-> NoTime]

\* intercept_service: a skipped method, or a disabled limiter, gets the
\* original handler, which the server then invokes; any other call gets
\* the wrapped handler.  The model follows one call at a time from here to
\* its end; the checks that other calls make meanwhile are is_allowed steps.
RCallStart(shape, client_id, method) ==
    /\ rcall.pc \in {"idle", "done"}
    /\ LET wrapped == ~(should_skip_method(method) \/ ~rlConfig.enabled)
       IN rcall' = [NoRCall EXCEPT
              !.pc = IF wrapped THEN "check" ELSE "handler",
              !.shape = shape, !.client = client_id, !.method = method,
              !.wrapped = wrapped,
              !.is_read = is_read_operation(method),
              !.invoked = IF wrapped THEN 0 ELSE 1]
    /\ UNCHANGED rlvars

\* a wrapper that invokes the original handler whatever the check says
NextAfterCheckAlways(allowed) == "handler"

\* wrapped_handler: the original handler is invoked only after
\* _check_rate_limit returned True
NextAfterCheck(allowed) == IF allowed THEN "handler" ELSE "abort"

\* wrapped_handler up to the first suspension: _check_rate_limit calls
\* is_allowed; an allowed call goes on to the original handler, a refused
\* one reads get_client_usage, builds the message of the rejection from it
\* and goes on to `await context.abort`
RCallCheck ==
    /\ rcall.pc = "check"
    /\ LET ok == Allowed(rcall.client, rcall.is_read)
           next == NextAfterCheck(ok)
           max_req == get_client_usage(rcall.client, rlNow)[2]
       IN /\ is_allowed(rcall.client, rcall.is_read)
          /\ rcall' = [rcall EXCEPT
                 !.pc = next,
                 !.limit = ApplicableLimit(rcall.is_read),
                 !.allowed = ok,
                 !.invoked = IF next = "handler" THEN @ + 1 ELSE @,
                 !.msg_limit = IF ok THEN @ ELSE max_req,
                 !.msg_window = IF ok THEN @ ELSE rlConfig.window_seconds]

\* _check_rate_limit lines 369-374, then `return None` in the wrapper: the
\* grpc.aio context raises out of abort; with a context whose abort returns,
\* the wrapper returns no response
RCallAbort(abort_raises) ==
    /\ rcall.pc = "abort"
    /\ rcall' = [rcall EXCEPT
           !.pc = "done",
           !.aborts = Append(@, "RESOURCE_EXHAUSTED"),
           !.result = IF abort_raises THEN "aborted" ELSE "none_returned"]
    /\ UNCHANGED rlvars

\* the original handler finishes
RHandlerFinish ==
    /\ rcall.pc = "handler"
    /\ rcall' = [rcall EXCEPT !.pc = "done", !.result = "response"]
    /\ UNCHANGED rlvars

(***************************************************************************)
(* TimeoutConfig and TimeoutInterceptor                                    *)
(***************************************************************************)

\* the 'services' entry of one service, as the configuration gives it
ServiceEntries ==
    {[present |-> FALSE, default |-> Unset,
      methods |-> [m \in MethodNames |-> Unset]]}
    \cup [present : {TRUE}, default : TimeoutValues \cup {Unset},
          methods : [MethodNames -> TimeoutValues \cup {Unset}]]

\* ServiceTimeoutConfig(**entry): pydantic fills the fields the entry omits
ServiceTimeoutConfig(entry) ==
    [default |-> IF entry.default = Unset THEN ServiceDefaultTimeout
                 ELSE entry.default,
     methods |-> entry.methods]

\* ServiceTimeoutConfig.get_timeout: self.methods.get(method_name, self.default)
ServiceGetTimeout(cfg, method_name) ==
    IF cfg.methods[method_name] # Unset
    THEN cfg.methods[method_name]
    ELSE cfg.default

\* TimeoutConfig.get_timeout
get_timeout(policy, service_name, method_name) ==
    IF policy.services[service_name].present
    THEN ServiceGetTimeout(ServiceTimeoutConfig(policy.services[service_name]),
                           method_name)
    ELSE policy.default

Min(a, b) == IF a <= b THEN a ELSE b

\* the caller's remaining time taken without the `> 0` test
get_effective_timeout_unchecked(time_remaining, server_timeout) ==
    IF server_timeout = 0
    THEN 0
    ELSE IF time_remaining.kind = "value"
    THEN Min(server_timeout, time_remaining.v)
    ELSE server_timeout

\* TimeoutInterceptor._get_effective_timeout
get_effective_timeout(time_remaining, server_timeout) ==
    IF server_timeout = 0
    THEN 0
    ELSE IF time_remaining.kind = "value" /\ time_remaining.v > 0
    THEN Min(server_timeout, time_remaining.v)
    ELSE server_timeout

\* TimeoutConfig(default=..., services={...})
TimeoutInit(default, ingest) ==
    /\ toPolicy = [default |-> default,
                   services |-> [s \in ServiceNames |->
                       IF s = "Ingest" THEN ingest
                       ELSE [present |-> FALSE, default |-> Unset,
                             methods |-> [m \in MethodNames |-> Unset]]]]
    /\ toCall = [service |-> "none", method |-> "none", timeout |-> 0]
    /\ toEff = [server |-> 0, remaining |-> [kind |-> "absent", v |-> 0],
                effective |-> 0]

\* TimeoutInterceptor._get_timeout for one call
Resolve(service_name, method_name) ==
    /\ toCall' = [service |-> service_name, method |-> method_name,
                  timeout |-> get_timeout(toPolicy, service_name, method_name)]
    /\ UNCHANGED <<toPolicy, toEff>>

\* TimeoutInterceptor._get_effective_timeout for one call
Effective(time_remaining, server_timeout) ==
    /\ toEff' = [server |-> server_timeout, remaining |-> time_remaining,
                 effective |-> get_effective_timeout(time_remaining, server_timeout)]
    /\ UNCHANGED <<toPolicy, toCall>>

(***************************************************************************)
(* TimeoutInterceptor: one intercepted call                                *)
(***************************************************************************)

Shapes == {"unary_unary", "unary_stream", "stream_unary", "stream_stream"}
SingleResponse == {"unary_unary", "stream_unary"}
Streamed == {"unary_stream", "stream_stream"}

\* server timeouts tried for a call, in ticks of the event loop's clock
TickTimeouts == {0, 1, 2}
\* what context.time_remaining() returns for a call, in ticks
CallRemaining ==
    {[kind |-> "absent", v |-> 0], [kind |-> "value", v |-> 1]}

\* no call has been made
NoCall ==
    [pc |-> "idle", shape |-> "none", enabled |-> TRUE, server |-> 0,
     skip |-> FALSE, remaining |-> [kind |-> "absent", v |-> 0],
     wrapped |-> FALSE, timeout |-> 0,
     armed |-> FALSE, clock |-> 0, expired |-> FALSE, handler |-> "none",
     emitted |-> 0, delivered |-> <<>>, aborts |-> <<>>, result |-> "none",
     abortRaises |-> TRUE, consumerSuspends |-> TRUE]

\* an interceptor that exempts the zero timeout only
should_skip_timeout_zero_only(enabled, timeout, is_skip_method) == timeout = 0

\* TimeoutInterceptor._should_skip_timeout; is_skip_method stands for
\* `method in self.DEFAULT_SKIP_METHODS`
should_skip_timeout(enabled, timeout, is_skip_method) ==
    ~enabled \/ timeout = 0 \/ is_skip_method

\* an abort that is never issued
AbortNever(c, code) == [c EXCEPT !.pc = "done", !.result = "none_returned"]

\* `await context.abort(code, ...)` as the last statement of a wrapper: the
\* grpc.aio context raises out of the wrapper; a context whose abort returns
\* (a test double) lets the wrapper end with no response
Abort(c, code) ==
    [c EXCEPT !.aborts = Append(@, code),
              !.pc = "done",
              !.result = IF c.abortRaises THEN "aborted" ELSE "none_returned"]

\* intercept_service and the first statements of wrapped_handler: the
\* handler is wrapped unless the timeout is skipped; a wrapped handler
\* arms the timer (asyncio.wait_for or asyncio.timeout) when the effective
\* timeout is not 0, and awaits the original handler
CallStart(shape, enabled, server_timeout, is_skip_method, time_remaining, abort_raises, suspends) ==
    /\ tcall.pc = "idle"
    /\ LET wrapped == ~should_skip_timeout(enabled, server_timeout, is_skip_method)
           t == IF wrapped
                THEN get_effective_timeout(time_remaining, server_timeout)
                ELSE 0
       IN tcall' = [NoCall EXCEPT !.pc = "handler", !.shape = shape,
                                  !.enabled = enabled,
                                  !.server = server_timeout,
                                  !.skip = is_skip_method,
                                  !.remaining = time_remaining,
                                  !.wrapped = wrapped, !.timeout = t,
                                  !.armed = (t # 0),
                                  !.abortRaises = abort_raises,
                                  !.consumerSuspends = suspends]

\* the task of the call is suspended, so the event loop can run its timer
Suspended ==
    \/ tcall.pc = "handler"
    \/ tcall.pc = "consumer" /\ tcall.consumerSuspends

\* the clock of the event loop advances while the call is suspended: up
\* to the time the timer is due when one is armed
CallTick ==
    /\ Suspended
    /\ tcall.clock < (IF tcall.armed THEN tcall.timeout ELSE MaxRun)
    /\ tcall' = [tcall EXCEPT !.clock = @ + 1]

\* the original handler of a single-response call returns its response
\* (lines 171-174, 246-249: wait_for returns it and disarms the timer)
HandlerReturn ==
    /\ tcall.pc = "handler"
    /\ tcall.shape \in SingleResponse
    /\ tcall' = [tcall EXCEPT !.pc = "done", !.armed = FALSE,
                              !.handler = "returned", !.result = "response"]

\* the original handler raises: an error of its own passes through the
\* wrapper; a TimeoutError of its own is caught by the wrapper's
\* `except asyncio.TimeoutError` when the timer is armed
HandlerRaise(is_timeout_error) ==
    /\ tcall.pc = "handler"
    /\ LET c == [tcall EXCEPT !.armed = FALSE,
                              !.handler = IF is_timeout_error
                                          THEN "raised_timeout" ELSE "raised"]
       IN tcall' = IF is_timeout_error /\ tcall.armed
                   THEN Abort(c, "DEADLINE_EXCEEDED")
                   ELSE [c EXCEPT !.pc = "done", !.result = "error"]

\* the original handler of a streamed call yields its next item; the
\* wrappers pass it on to the consumer of the stream (lines 211-217, 359-360)
HandlerYield ==
    /\ tcall.pc = "handler"
    /\ tcall.shape \in Streamed
    /\ tcall.emitted < MaxItems
    /\ tcall' = [tcall EXCEPT !.pc = "consumer", !.emitted = @ + 1,
                              !.delivered = Append(@, tcall.emitted + 1)]

\* the consumer of the stream asks for the next item
ConsumerNext ==
    /\ tcall.pc = "consumer"
    /\ tcall' = [tcall EXCEPT !.pc = "handler"]

\* the original handler of a streamed call ends its stream
HandlerEnd ==
    /\ tcall.pc = "handler"
    /\ tcall.shape \in Streamed
    /\ tcall' = [tcall EXCEPT !.pc = "done", !.armed = FALSE,
                              !.handler = "ended", !.result = "ended"]

\* The timer fires and cancels the task of the call; CancelledError is
\* raised where the task is suspended.  Inside the original handler (which
\* lets it through) it reaches wait_for or asyncio.timeout, which turn it
\* into TimeoutError, and the wrapper aborts (lines 175-183, 361-368).  In
\* the consumer, while the generators are suspended at `yield` inside
\* `async with asyncio.timeout`, it is raised in the consumer's own await:
\* no wrapper sees it; the generators are closed.
TimerExpire ==
    /\ Suspended
    /\ tcall.armed
    /\ tcall.clock = tcall.timeout
    /\ LET c == [tcall EXCEPT !.armed = FALSE, !.expired = TRUE]
       IN tcall' = IF tcall.pc = "handler"
                   THEN Abort([c EXCEPT !.handler = "cancelled"],
                              "DEADLINE_EXCEEDED")
                   ELSE [c EXCEPT !.pc = "done", !.handler = "closed",
                                  !.result = "cancelled"]

(***************************************************************************)
(* A call through the interceptors of serve()                              *)
(***************************************************************************)

\* the server looks the handler up through the chain and invokes it
PCallStart(client_id, creds, method) ==
    /\ pcall.pc \in {"idle", "done"}
    /\ LET h == Intercept(server, 1, creds, method)
       IN pcall' = [NoPCall EXCEPT !.pc = "run", !.client = client_id,
                                   !.creds = creds, !.method = method,
                                   !.wrappers = h.wrappers,
                                   !.base = h.base, !.depth = 1]
    /\ UNCHANGED rlvars

\* the call enters its next wrapper: the rate limiter's wrapper makes the
\* admission check and aborts a refused call, the others go on inwards
PCallEnter ==
    /\ pcall.pc = "run"
    /\ pcall.depth <= Len(pcall.wrappers)
    /\ IF pcall.wrappers[pcall.depth] = "RateLimit"
       THEN /\ is_allowed(pcall.client, is_read_operation(pcall.method))
            /\ pcall' = IF Allowed(pcall.client,
                                   is_read_operation(pcall.method))
                        THEN [pcall EXCEPT !.depth = @ + 1]
                        ELSE Raised(pcall, pcall.depth, "RESOURCE_EXHAUSTED")
       ELSE /\ pcall' = [pcall EXCEPT !.depth = @ + 1]
            /\ UNCHANGED rlvars

\* the handler inside the wrappers runs: AuthInterceptor's handler aborts
\* with UNAUTHENTICATED; the servicer's method returns or raises
PCallHandler(ok) ==
    /\ pcall.pc = "run"
    /\ pcall.depth = Len(pcall.wrappers) + 1
    /\ pcall' = IF pcall.base = "unauthenticated"
                THEN Raised(pcall, pcall.depth, "UNAUTHENTICATED")
                ELSE IF ok THEN [pcall EXCEPT !.pc = "done", !.status = "OK"]
                ELSE Raised(pcall, pcall.depth, "exception")
    /\ UNCHANGED rlvars

(***************************************************************************)
(* Specifications                                                          *)
(***************************************************************************)

\* the components a specification does not exercise, as constructed
QueueUnused == QueueServiceInit(1)
LimiterUnused == LimiterInit(RateLimitConfig(TRUE, 1, 1, NoLimit, NoLimit), 0)
TimeoutUnused ==
    TimeoutInit(30, [present |-> FALSE, default |-> Unset,
                     methods |-> [m \in MethodNames |-> Unset]])
XUnused ==
    /\ wcall = NoWait /\ bg = <<>> /\ icall = NoICall /\ ecalls = NoECalls
    /\ server = Server(FALSE, FALSE, FALSE, TRUE, {}) /\ pcall = NoPCall
CallsUnused == tcall = NoCall /\ rcall = NoRCall /\ XUnused

InitQ ==
    /\ \E c \in ConcurrencyChoices : QueueServiceInit(c)
    /\ LimiterUnused
    /\ TimeoutUnused
    /\ CallsUnused

QFrame == UNCHANGED <<rlvars, tovars, icvars>>

\* The queue with the wall clock standing still: every completion time is
\* the current time, so clear_completed_tasks(max_age_seconds = 0) removes
\* every terminal task and a larger max_age removes none.
NextQ ==
    \/ \E g \in Groups, tid \in {NoId} \cup CustomIds :
          /\ AcceptsSubmit => Len(rec) < MaxTasks
          /\ add_task(g, tid)
          /\ QFrame
    \/ \E g \in Groups : WorkerBegin(g) /\ QFrame
    \/ \E g \in Groups : WorkerPull(g) /\ QFrame
    \/ \E g \in Groups : WorkerAcquire(g) /\ QFrame
    \/ \E g \in Groups, ok \in BOOLEAN : UnitFinish(g, ok) /\ QFrame
    \/ \E g \in Groups : WorkerIdleTimeout(g) /\ QFrame
    \/ \E g \in Groups : WorkerTimeoutResume(g) /\ QFrame
    \/ \E g \in Groups : WorkerCancelled(g) /\ QFrame
    \/ ClearCompleted /\ QFrame
    \/ ShutdownBegin /\ QFrame
    \/ ShutdownTimeout /\ QFrame
    \/ ShutdownReturn /\ QFrame

SpecQ == InitQ /\ [][NextQ]_vars

\* The queue with the wall clock advancing.
NextQT == NextQ \/ (QTick /\ QFrame)

SpecQT == InitQ /\ [][NextQT]_vars

\* The scenario of one group: units are submitted to one group, with
\* generated ids, and left to its worker; nothing is shut down or cleared.
ScenarioGroup == "A"
ScenarioUnits == MaxTasks + 1

NextQS ==
    \/ /\ Len(rec) < ScenarioUnits
       /\ add_task(ScenarioGroup, NoId)
       /\ QFrame
    \/ WorkerBegin(ScenarioGroup) /\ QFrame
    \/ WorkerPull(ScenarioGroup) /\ QFrame
    \/ \E ok \in BOOLEAN : UnitFinish(ScenarioGroup, ok) /\ QFrame
    \/ WorkerIdleTimeout(ScenarioGroup) /\ QFrame
    \/ WorkerTimeoutResume(ScenarioGroup) /\ QFrame

SpecQS == InitQ /\ [][NextQS]_vars

\* The same scenario with the event loop's scheduling: a worker that can
\* take a step takes it, the one-second timer of its wait fires, and a
\* unit that runs ends.
WorkerSteps ==
    \/ WorkerBegin(ScenarioGroup) /\ QFrame
    \/ WorkerPull(ScenarioGroup) /\ QFrame
    \/ \E ok \in BOOLEAN : UnitFinish(ScenarioGroup, ok) /\ QFrame
    \/ WorkerIdleTimeout(ScenarioGroup) /\ QFrame
    \/ WorkerTimeoutResume(ScenarioGroup) /\ QFrame

SpecQSF == SpecQS /\ WF_vars(WorkerSteps)

\* One group with a caller that waits for a task: units are submitted to
\* the group under generated and caller-chosen ids, its worker runs them,
\* terminal tasks are cleared, and one wait_for_task call is made.
QWFrame ==
    UNCHANGED <<rlvars, tovars, tcall, rcall, bg, icall, ecalls, server, pcall>>

\* a step of the queue while the caller sleeps: the history of the call
\* notes a task that is now Completed or Failed
QWObserve ==
    /\ wcall' = [wcall EXCEPT !.reached =
                    \/ @
                    \/ wcall.pc = "sleep" /\ rec'[wcall.task].status \in Terminal]
    /\ QWFrame

NextQW ==
    \/ \E tid \in {NoId} \cup CustomIds :
          /\ Len(rec) < MaxTasks
          /\ add_task(ScenarioGroup, tid)
          /\ QWObserve
    \/ WorkerBegin(ScenarioGroup) /\ QWObserve
    \/ WorkerPull(ScenarioGroup) /\ QWObserve
    \/ \E ok \in BOOLEAN : UnitFinish(ScenarioGroup, ok) /\ QWObserve
    \/ WorkerIdleTimeout(ScenarioGroup) /\ QWObserve
    \/ WorkerTimeoutResume(ScenarioGroup) /\ QWObserve
    \/ ClearCompleted /\ QWObserve
    \/ \E id \in TaskIds, t \in WaitTimeouts : wait_for_task(id, t) /\ QWFrame
    \/ WaitWake /\ QWFrame

SpecQW == InitQ /\ [][NextQW]_vars

\* Chains of interceptors asked for the handler of a method.
ISFrame ==
    UNCHANGED <<qvars, rlvars, tovars, tcall, rcall, wcall, bg, ecalls, server,
                pcall>>

NextIS ==
    \/ \E p \in Policies, h \in ServicerHandlers \cup {AbsentHandler},
          b \in BOOLEAN : InterceptFirst(p, h, b) /\ ISFrame
    \/ \E p \in Policies, b \in BOOLEAN : InterceptNext(p, b) /\ ISFrame

SpecIS == InitQ /\ [][NextIS]_vars

\* Two calls through the error interceptor.
EIFrame ==
    UNCHANGED <<qvars, rlvars, tovars, tcall, rcall, wcall, bg, icall, server,
                pcall>>

NextEI ==
    \/ \E k \in 1..2 : ECallStart(k) /\ EIFrame
    \/ \E k \in 1..2 : EHandlerReturn(k) /\ EIFrame
    \/ \E k \in 1..2, e \in Exceptions : EHandlerRaise(k, e) /\ EIFrame

SpecEI == InitQ /\ [][NextEI]_vars

\* values tried for the skip_methods of the rate-limit configuration: none,
\* or one method of the service
SkipChoices == {{}, {<<"/", "graphiti.v1.IngestService", "/", "AddEpisode">>}}

\* Calls through the server that serve() builds, one after the other, with
\* the limiter's clock standing still.
InitPL ==
    /\ \E n \in 1..MaxLimit :
          LimiterInit(RateLimitConfig(TRUE, 1, n, NoLimit, NoLimit), 0)
    /\ QueueUnused
    /\ TimeoutUnused
    /\ tcall = NoCall /\ rcall = NoRCall
    /\ wcall = NoWait /\ bg = <<>> /\ icall = NoICall /\ ecalls = NoECalls
    /\ \E a \in BOOLEAN, r \in BOOLEAN, t \in BOOLEAN, sh \in BOOLEAN,
          cf \in SkipChoices : server = Server(a, r, t, sh, cf)
    /\ pcall = NoPCall

PLFrame ==
    UNCHANGED <<qvars, tovars, tcall, rcall, wcall, bg, icall, ecalls, server>>

NextPL ==
    \/ \E c \in Clients, cr \in Credentials, m \in ServedMethods :
          PCallStart(c, cr, m) /\ PLFrame
    \/ PCallEnter /\ PLFrame
    \/ \E ok \in BOOLEAN : PCallHandler(ok) /\ PLFrame

SpecPL == InitPL /\ [][NextPL]_vars

\* AddMessages requests and the deferred work they start, next to a
\* QueueService that nothing submits to.
AMFrame ==
    UNCHANGED <<rlvars, tovars, tcall, rcall, icall, ecalls, server, pcall>>

NextAM ==
    \/ \E g \in Groups, n \in 1..MaxMessages : AddMessages(g, n) /\ AMFrame
    \/ \E i \in DOMAIN bg : UnitStart(i) /\ AMFrame
    \/ \E i \in DOMAIN bg, ok \in BOOLEAN : UnitEnd(i, ok) /\ AMFrame

SpecAM == InitQ /\ [][NextAM]_vars

InitRL ==
    /\ \E enabled \in BOOLEAN, w \in WindowChoices, n \in 0..MaxLimit,
          rd \in ReadLimitChoices, wr \in WriteLimitChoices,
          iv \in IntervalChoices :
          LimiterInit(RateLimitConfig(enabled, w, n, rd, wr), iv)
    /\ QueueUnused
    /\ TimeoutUnused
    /\ CallsUnused

RLFrame == UNCHANGED <<qvars, tovars, icvars>>

NextRL ==
    \/ \E c \in Clients, rd \in BOOLEAN : is_allowed(c, rd) /\ RLFrame
    \/ maybe_cleanup /\ RLFrame
    \/ RLTick /\ RLFrame

SpecRL == InitRL /\ [][NextRL]_vars

\* The limiter as the server drives it: _maybe_cleanup has no caller but
\* line 108 of is_allowed, which no path of is_allowed reaches, so the steps
\* are the admission checks and the clock.  Time passes, up to the bound,
\* and the checks of the clients other than Observed keep arriving;
\* Observed may stay away for good.
Checks == \E c \in Clients, rd \in BOOLEAN : is_allowed(c, rd) /\ RLFrame

ChecksOfOthers ==
    \E c \in Clients \ {Observed}, rd \in BOOLEAN : is_allowed(c, rd) /\ RLFrame

NextRLP ==
    \/ Checks
    \/ RLTick /\ RLFrame

SpecRLP ==
    /\ InitRL
    /\ [][NextRLP]_vars
    /\ WF_vars(RLTick /\ RLFrame)
    /\ WF_vars(ChecksOfOthers)

\* RateLimitInterceptor.__init__
InitRI ==
    /\ \E enabled \in BOOLEAN, n \in 0..MaxLimit,
          rd \in ReadLimitChoices, wr \in WriteLimitChoices :
          LimiterInit(RateLimitConfig(enabled, 1, n, rd, wr), 0)
    /\ CallsUnused
    /\ QueueUnused
    /\ TimeoutUnused

RIFrame == UNCHANGED <<qvars, tovars, tcall, xvars>>

\* The interceptor with the limiter's clock standing still.
NextRI ==
    \/ \E sh \in Shapes, c \in Clients, m \in MethodPaths :
          RCallStart(sh, c, m) /\ RIFrame
    \/ RCallCheck /\ RIFrame
    \/ \E ar \in BOOLEAN : RCallAbort(ar) /\ RIFrame
    \/ RHandlerFinish /\ RIFrame
    \/ \E c \in Clients, rd \in BOOLEAN :
          is_allowed(c, rd) /\ UNCHANGED rcall /\ RIFrame

SpecRI == InitRI /\ [][NextRI]_vars

InitTC ==
    /\ CallsUnused
    /\ QueueUnused
    /\ LimiterUnused
    /\ TimeoutUnused

TCFrame == UNCHANGED <<qvars, rlvars, tovars, rcall, xvars>>

NextTC ==
    \/ \E sh \in Shapes, en \in BOOLEAN, s \in TickTimeouts,
          sk \in BOOLEAN, r \in CallRemaining, ar \in BOOLEAN,
          cs \in BOOLEAN :
          CallStart(sh, en, s, sk, r, ar, cs) /\ TCFrame
    \/ CallTick /\ TCFrame
    \/ HandlerReturn /\ TCFrame
    \/ \E te \in BOOLEAN : HandlerRaise(te) /\ TCFrame
    \/ HandlerYield /\ TCFrame
    \/ ConsumerNext /\ TCFrame
    \/ HandlerEnd /\ TCFrame
    \/ TimerExpire /\ TCFrame

SpecTC == InitTC /\ [][NextTC]_vars

InitTO ==
    /\ \E d \in TimeoutValues, e \in ServiceEntries : TimeoutInit(d, e)
    /\ QueueUnused
    /\ LimiterUnused
    /\ CallsUnused

TOFrame == UNCHANGED <<qvars, rlvars, icvars>>

NextTO ==
    \/ \E s \in ServiceNames, m \in MethodNames : Resolve(s, m) /\ TOFrame
    \/ \E r \in Remaining, s \in TimeoutValues : Effective(r, s) /\ TOFrame

SpecTO == InitTO /\ [][NextTO]_vars

(***************************************************************************)
(* Properties                                                              *)
(***************************************************************************)

Entered == {"running", "completed", "failed", "cancelled"}

\* the submissions whose task id no other submission uses
UniqueId(n) == \A m \in DOMAIN rec : m # n => rec[m].id # rec[n].id

\* C1: per-group FIFO.  In every group the submissions enter Processing in
\* the order they were submitted, and a submission enters Processing only
\* after the worker has recorded Completed or Failed for every earlier
\* submission of the group (or found it cleared from the registry, which
\* only happens to a terminal task); a task whose id is its own is then
\* Completed or Failed in its record.
C1_GroupFifo ==
    \A g \in Groups :
        /\ \A i, j \in DOMAIN procOrder[g] :
              i < j => procOrder[g][i] < procOrder[g][j]
        /\ \A n \in DOMAIN rec :
              (rec[n].group_id = g /\ ustate[n] \in Entered) =>
                 \A m \in 1..(n - 1) :
                    rec[m].group_id = g =>
                       /\ ustate[m] \in {"completed", "failed", "skipped"}
                       /\ UniqueId(m) => rec[m].status \in Terminal

\* C1 witness: the second submission of a group is Processing after the
\* first one failed
C1_Witness ==
    \E g \in Groups :
        /\ Len(procOrder[g]) = 2
        /\ ustate[procOrder[g][1]] = "failed"
        /\ ustate[procOrder[g][2]] = "running"

\* C2: the number of tasks whose status is Processing, over all groups, is
\* at most max_concurrent.
C2_ConcurrencyBound ==
    Cardinality({n \in DOMAIN rec : rec[n].status = "processing"}) <= maxConcurrent

\* C2 witness: with max_concurrent = 1 one worker runs a unit while the
\* worker of another group waits for the slot
C2_Witness ==
    /\ maxConcurrent = 1
    /\ \E g, h \in Groups : wpc[g] = "run" /\ wpc[h] = "sem"

\* the limit a check of a class is made against, from the configuration
ClassLimit(class_limit) ==
    IF class_limit # NoLimit THEN class_limit ELSE rlConfig.max_requests

\* C3: for every client the number of admitted checks whose timestamps lie
\* in the trailing window (now - W, now] never exceeds the limit in force
\* (the larger of the read and write limits when they differ; N when one
\* limit N applies to every check).  Timestamps never lie in the future, so
\* this bounds every trailing window (t - W, t].
C3_WindowBound ==
    rlConfig.enabled =>
        \A c \in Clients :
            Len(admitted[c]) <= Max({ClassLimit(rlConfig.read_max_requests),
                                     ClassLimit(rlConfig.write_max_requests)})

\* C3 witness: N = 2 with no read or write limit; two checks were admitted
\* and the next one in the same window was rejected
C3_Witness ==
    /\ rlConfig.enabled
    /\ rlConfig.max_requests = 2
    /\ rlConfig.read_max_requests = NoLimit
    /\ rlConfig.write_max_requests = NoLimit
    /\ Len(admitted[Observed]) = 2
    /\ outObs = "reject"

\* C4: every accepted task reaches Completed or Failed.  Once shutdown has
\* returned and no worker is live, add_task is closed and nothing can change
\* a status any more, so every task must be Completed or Failed by then.
C4_EveryTaskTerminates ==
    (sdpc = "done" /\ \A g \in Groups : ~is_worker_running(g)) =>
        \A n \in DOMAIN rec : rec[n].status \in Terminal

Rank(status) ==
    CASE status = "pending" -> 0
      [] status = "processing" -> 1
      [] OTHER -> 2

\* C5: the status StatusOf reports for a task id only moves forward:
\* Pending -> Processing -> Completed or Failed, and a Completed or Failed
\* task keeps its status.
C5_ForwardOnly ==
    [][\A id \in TaskIds :
          (StatusOf(id) # "absent" /\ StatusOf(id)' # "absent") =>
              /\ Rank(StatusOf(id)') >= Rank(StatusOf(id))
              /\ StatusOf(id) \in Terminal => StatusOf(id)' = StatusOf(id)]_vars

\* C6: the checks of other clients change neither the window of Observed
\* nor the outcome of its checks: a limiter that receives the checks of
\* every client and one that receives only those of Observed agree on
\* Observed's window and on the outcome of each of its checks.
C6_ClientIndependence ==
    /\ outObs = outObsS
    /\ (Observed \in winKeys) = hasWindowS
    /\ windows[Observed] = windowS

\* C6 witness: the other client is at its limit and Observed was admitted
C6_Witness ==
    /\ rlConfig.enabled
    /\ rlConfig.max_requests >= 1
    /\ rlConfig.read_max_requests = NoLimit
    /\ rlConfig.write_max_requests = NoLimit
    /\ Len(admitted["a"]) = rlConfig.max_requests
    /\ outObs = "admit"
    /\ Len(windows[Observed]) >= 1

\* resolve(S, M) as documented: the method override when the entry of S
\* gives one for M, otherwise the default of S when its entry gives one,
\* otherwise the global default
Resolved(policy, S, M) ==
    LET e == policy.services[S]
    IN IF e.present /\ e.methods[M] # Unset THEN e.methods[M]
       ELSE IF e.present /\ e.default # Unset THEN e.default
       ELSE policy.default

\* C7: the timeout resolved for (S, M) is the method override if configured,
\* else the service default if configured, else the global default.
C7_Resolution ==
    toCall.service # "none" =>
        toCall.timeout = Resolved(toPolicy, toCall.service, toCall.method)

\* C8: the effective timeout is 0 when the server timeout is 0; the smaller
\* of the server timeout and the caller's remaining time when both are
\* positive; the server timeout when the remaining time is absent,
\* unreadable, zero or negative.
C8_EffectiveTimeout ==
    LET s == toEff.server
        r == toEff.remaining
        e == toEff.effective
    IN /\ s = 0 => e = 0
       /\ (s > 0 /\ r.kind = "value" /\ r.v > 0) =>
             e <= s /\ e <= r.v /\ e \in {s, r.v}
       /\ (s > 0 /\ (r.kind # "value" \/ r.v <= 0)) => e = s

\* C8 witness: the caller's remaining time is positive and shorter than the
\* server timeout, and is the effective timeout
C8_Witness ==
    /\ toEff.server > 0
    /\ toEff.remaining.kind = "value"
    /\ toEff.remaining.v > 0
    /\ toEff.remaining.v < toEff.server
    /\ toEff.effective = toEff.remaining.v

\* C9: once shutdown has begun, a step registers no task record, enqueues
\* nothing on any group FIFO and starts no worker, and an add_task call
\* ends with the 'shut down' error.
C9_SubmitAfterShutdown ==
    [][~running =>
          /\ Len(rec') = Len(rec)
          /\ \A id \in TaskIds : tasks'[id] # 0 => tasks'[id] = tasks[id]
          /\ \A g \in Groups :
                /\ Len(queues'[g]) <= Len(queues[g])
                /\ wpc'[g] = "start" => wpc[g] = "start"
          /\ submitResult' # submitResult => submitResult' = "closed"]_vars

\* C9 witness: shutdown is waiting for a live worker, and an add_task call
\* that the bound of the model would have let through ended 'shut down'
C9_Witness ==
    /\ ~running
    /\ sdpc = "waiting"
    /\ submitResult = "closed"
    /\ Len(rec) < MaxTasks

\* C10: when shutdown's timeout elapses, every worker that is running a unit
\* is cancelled; the cancelled worker ends, its task Failed with the reason
\* 'Task was cancelled' and a completion time; that task stays Failed with
\* that reason and its unit is not run again.
C10_ShutdownCancellation ==
    [][/\ (sdpc = "waiting" /\ sdpc' = "cancelling") =>
             \A g \in Groups : wpc[g] = "run" => cancelReq'[g]
       /\ \A g \in Groups :
             (cancelReq[g] /\ wpc[g] = "run") =>
                \/ wpc'[g] = "run"
                \/ /\ wpc'[g] = "done"
                   /\ rec'[wTask[g]].status = "failed"
                   /\ rec'[wTask[g]].error = "Task was cancelled"
                   /\ rec'[wTask[g]].completed_at # NoTime
                   /\ ustate'[wCoro[g]] = "cancelled"
       /\ \A n \in DOMAIN rec :
             /\ rec[n].error = "Task was cancelled" =>
                   /\ rec'[n].status = "failed"
                   /\ rec'[n].error = "Task was cancelled"
             /\ ustate[n] = "cancelled" => ustate'[n] = "cancelled"]_vars

\* C10 witness: shutdown's timeout has elapsed and a task is Failed with the
\* cancellation reason
C10_Witness ==
    /\ sdpc = "cancelling"
    /\ \E n \in DOMAIN rec :
          /\ rec[n].status = "failed"
          /\ rec[n].error = "Task was cancelled"
          /\ rec[n].completed_at # NoTime

Count(q, v) == Cardinality({i \in DOMAIN q : q[i] = v})

\* C11: a unit that raises makes its own task Failed, with the error text
\* recorded, changes no other task and leaves the worker of the group in its
\* loop, ready for the next queued unit; a unit starts only after the worker
\* has recorded the outcome of every earlier unit of the group; once every
\* submitted unit is finished, the stats of the group count the units that
\* returned as completed, the units that raised as failed, and all of them
\* in total (3 units, the 2nd raising: completed 2, failed 1, total 3).
C11_FailureIsolation ==
    /\ [](\A n \in DOMAIN rec :
             ustate[n] \in Entered =>
                \A m \in 1..(n - 1) :
                   /\ ustate[m] \in {"completed", "failed"}
                   /\ rec[m].status = ustate[m]
                   /\ ustate[m] = "failed" => rec[m].error = "exception")
    /\ []((\A n \in DOMAIN rec : ustate[n] \in {"completed", "failed"}) =>
             /\ get_group_stats(ScenarioGroup).completed = Count(ustate, "completed")
             /\ get_group_stats(ScenarioGroup).failed = Count(ustate, "failed")
             /\ get_group_stats(ScenarioGroup).total = Len(rec)
             /\ get_group_stats(ScenarioGroup).pending = 0
             /\ get_group_stats(ScenarioGroup).processing = 0)
    /\ [][\A n \in DOMAIN rec :
             (ustate[n] = "running" /\ ustate'[n] = "failed") =>
                /\ rec'[n].status = "failed"
                /\ rec'[n].error = "exception"
                /\ \A m \in DOMAIN rec : m # n => rec'[m] = rec[m]
                /\ queues' = queues
                /\ wpc'[rec[n].group_id] = "get"]_vars

\* C11 witness: 3 units were submitted to the group, the 2nd raised, and the
\* stats are completed 2, failed 1, total 3
C11_Witness ==
    /\ ustate = <<"completed", "failed", "completed">>
    /\ get_group_stats(ScenarioGroup).completed = 2
    /\ get_group_stats(ScenarioGroup).failed = 1
    /\ get_group_stats(ScenarioGroup).total = 3

\* C12: a single-response call with effective timeout T > 0 whose handler
\* returns before the timer fires returns the handler's response and issues
\* no abort; when the timer fires first (T ticks after the call began) the
\* handler is cancelled, the call is aborted exactly once, with
\* DEADLINE_EXCEEDED, and no response is returned.
C12_SingleResponseRace ==
    (tcall.shape \in SingleResponse /\ tcall.timeout > 0) =>
        /\ tcall.handler = "returned" =>
               /\ tcall.result = "response"
               /\ tcall.aborts = <<>>
               /\ ~tcall.expired
        /\ tcall.expired =>
               /\ tcall.clock = tcall.timeout
               /\ tcall.handler = "cancelled"
               /\ tcall.aborts = <<"DEADLINE_EXCEEDED">>
               /\ tcall.result \in {"aborted", "none_returned"}
        /\ tcall.result = "response" => tcall.handler = "returned"

\* C12 witness: the timer of a unary-unary call fired first and the call was
\* aborted with DEADLINE_EXCEEDED
C12_Witness ==
    /\ tcall.shape = "unary_unary"
    /\ tcall.timeout > 0
    /\ tcall.expired
    /\ tcall.aborts = <<"DEADLINE_EXCEEDED">>
    /\ tcall.result = "aborted"

\* C13: a streamed call with effective timeout T > 0 delivers the items in
\* the order they were emitted; its timer fires T ticks after the call began,
\* however many items were emitted; when it fires the call is aborted exactly
\* once, with DEADLINE_EXCEEDED, and nothing is emitted or delivered
\* afterwards; a stream that ends before the timer fires has delivered all
\* its items and issues no abort.
C13_StreamTimeout ==
    (tcall.shape \in Streamed /\ tcall.timeout > 0) =>
        /\ tcall.delivered = [i \in 1..tcall.emitted |-> i]
        /\ tcall.expired =>
               /\ tcall.clock = tcall.timeout
               /\ tcall.pc = "done"
               /\ tcall.aborts = <<"DEADLINE_EXCEEDED">>
        /\ tcall.handler = "ended" =>
               /\ tcall.aborts = <<>>
               /\ ~tcall.expired

\* C14: a call the limiter refused is aborted exactly once, with
\* RESOURCE_EXHAUSTED, and its handler is never invoked; a call the limiter
\* admitted (or did not check) has its handler invoked exactly once and is
\* never aborted; this holds for each of the four call shapes.
C14_RejectionShortCircuits ==
    rcall.pc # "idle" =>
        /\ ~rcall.allowed =>
               /\ rcall.invoked = 0
               /\ rcall.result # "response"
               /\ rcall.pc = "done" => rcall.aborts = <<"RESOURCE_EXHAUSTED">>
               /\ rcall.pc # "done" => rcall.aborts = <<>>
        /\ rcall.allowed =>
               /\ rcall.aborts = <<>>
               /\ rcall.invoked <= 1
               /\ rcall.pc \in {"handler", "done"} => rcall.invoked = 1

\* C14 witness: a streamed call of a client whose window is full was refused
\* and aborted with RESOURCE_EXHAUSTED, its handler not invoked
C14_Witness ==
    /\ rcall.pc = "done"
    /\ rcall.shape = "unary_stream"
    /\ ~rcall.allowed
    /\ rcall.limit >= 1
    /\ Len(windows[rcall.client]) = rcall.limit
    /\ rcall.aborts = <<"RESOURCE_EXHAUSTED">>
    /\ rcall.invoked = 0

\* the last name of a method path: the piece after its last "/", when there
\* is exactly one
LastSegmentIn(method, names) ==
    /\ method # <<>>
    /\ method[Len(method)] \in names
    /\ Len(method) > 1 => method[Len(method) - 1] = "/"

\* C15: a checked call is a read exactly when the last segment of its
\* method path is in the read-method set; it is compared against the read
\* limit when it is a read and a read limit is configured, against the
\* write limit when it is a write and a write limit is configured, and
\* against the global limit otherwise.
C15_ApplicableLimit ==
    (rcall.pc \in {"handler", "abort", "done"} /\ rcall.wrapped) =>
        /\ rcall.is_read = LastSegmentIn(rcall.method, READ_METHODS)
        /\ rcall.limit =
              IF rcall.is_read /\ rlConfig.read_max_requests # NoLimit
              THEN rlConfig.read_max_requests
              ELSE IF ~rcall.is_read /\ rlConfig.write_max_requests # NoLimit
              THEN rlConfig.write_max_requests
              ELSE rlConfig.max_requests
        /\ rcall.allowed = (rcall.pc # "abort" /\ rcall.aborts = <<>>)

\* C15 witness: with a global limit of 0 and a read limit, a read whose path
\* ends in a read method was admitted under the read limit
C15_Witness ==
    /\ rlConfig.max_requests = 0
    /\ rlConfig.read_max_requests # NoLimit
    /\ rcall.pc = "done"
    /\ rcall.wrapped
    /\ rcall.is_read
    /\ Len(rcall.method) > 1
    /\ rcall.allowed
    /\ rcall.limit = rlConfig.read_max_requests

\* the timestamps of a window that have aged out: ts <= now - W
AgedOut(timestamps, now) ==
    SelectSeq(timestamps, LAMBDA ts : ts <= now - rlConfig.window_seconds)

\* C16: when the window of a client holds as many timestamps as the limit
\* the check is made against, and the oldest of them has aged out
\* (ts <= now - W), the check is admitted: its time is recorded, and the
\* window then holds the timestamps that had not aged out and the new one,
\* so that the capacity restored is the number of timestamps that aged out.
C16_CapacityRestoration ==
    [][\A c \in Clients, rd \in BOOLEAN :
          (/\ rlConfig.enabled
           /\ is_allowed(c, rd)
           /\ ApplicableLimit(rd) >= 1
           /\ Len(windows[c]) = ApplicableLimit(rd)
           /\ AgedOut(windows[c], rlNow) # <<>>) =>
             /\ Len(windows'[c]) =
                   ApplicableLimit(rd) - Len(AgedOut(windows[c], rlNow)) + 1
             /\ windows'[c][Len(windows'[c])] = rlNow
             /\ \A i \in 1..(Len(windows'[c]) - 1) :
                   windows'[c][i] > rlNow - rlConfig.window_seconds
             /\ admitted'[c] = Append(admitted[c], rlNow)
             /\ c = Observed => outObs' = "admit"]_vars

\* C16 witness: the last check of Observed found its window full with the
\* oldest timestamp aged out and a newer one still inside, and was admitted
C16_Witness ==
    /\ restoredObs = 1
    /\ outObs = "admit"
    /\ Len(windows[Observed]) = 2
    /\ windows[Observed][2] = rlNow

\* C17: every group has at most one live worker: no live worker task is
\* ever replaced in self._workers, and a step starts a worker for a group
\* only when the group had none or its last one had finished.
C17_OneWorkerPerGroup ==
    /\ [](\A g \in Groups :
             orphaned[g] + (IF is_worker_running(g) THEN 1 ELSE 0) <= 1)
    /\ [][\A g \in Groups :
             (wpc'[g] = "start" /\ wpc[g] # "start") =>
                wpc[g] \in {"none", "done"}]_vars

\* C17 witness: the worker of a group finished after its unit, and a later
\* submission to the group started a new one
C17_Witness ==
    \E g \in Groups :
        /\ wpc[g] = "start"
        /\ Len(queues[g]) >= 1
        /\ \E n \in DOMAIN rec :
              rec[n].group_id = g /\ ustate[n] \in {"completed", "failed"}

\* C18: with a bound of at least 2, the worker of a group is never kept
\* waiting for a slot while a unit of another group is Processing: it takes
\* its slot as soon as it has pulled its task.
C18_CrossGroupConcurrency ==
    maxConcurrent >= 2 =>
        \A g, h \in Groups :
            (g # h /\ wpc[h] = "run") =>
                /\ wpc[g] # "sem"
                /\ wpc[g] # "run" => semValue >= 1

\* C18 witness: a task of each of two groups is Processing at the same time
C18_Witness ==
    /\ maxConcurrent >= 2
    /\ \E m, n \in DOMAIN rec :
          /\ rec[m].group_id = "A" /\ rec[m].status = "processing"
          /\ rec[n].group_id = "B" /\ rec[n].status = "processing"
          /\ ustate[m] = "running" /\ ustate[n] = "running"

\* the tasks whose status is Processing
ProcessingTasks == {id \in TaskIds : StatusOf(id) = "processing"}

\* C19: the number of slots held equals the number of Processing tasks;
\* when no task is Processing every slot is free; a worker that is not
\* running a unit holds no slot.
C19_NoSlotLeak ==
    /\ maxConcurrent - semValue = Cardinality(ProcessingTasks)
    /\ ProcessingTasks = {} => semValue = maxConcurrent
    /\ maxConcurrent - semValue = Cardinality({g \in Groups : wpc[g] = "run"})

\* the most recent timestamp of the client's window is older than the
\* window length
IdleBeyondWindow(c) ==
    /\ c \in winKeys
    /\ windows[c] # <<>>
    /\ Max(SeqRange(windows[c])) < rlNow - rlConfig.window_seconds

\* C20: a window whose most recent timestamp is older than the window
\* length is eventually removed from the registry (unless its client
\* comes back first), as time passes and admission checks keep arriving.
C20_IdleEviction ==
    \A c \in Clients :
        IdleBeyondWindow(c) ~> (c \notin winKeys \/ ~IdleBeyondWindow(c))

\* C21 as claimed: in every state no window holds a timestamp older than
\* (now - window), also after time has advanced since the last check.
C21_WindowFreshness ==
    \A c \in Clients :
        \A i \in DOMAIN windows[c] :
            windows[c][i] >= rlNow - rlConfig.window_seconds

\* C21 as amended: an admission check leaves in the window of its client
\* only timestamps newer than (now - window); timestamps are removed by the
\* check, not by the passing of time.
C21_FreshAfterCheck ==
    [][\A c \in Clients, rd \in BOOLEAN :
          (rlConfig.enabled /\ is_allowed(c, rd)) =>
             \A i \in DOMAIN windows'[c] :
                windows'[c][i] > rlNow - rlConfig.window_seconds]_vars

\* C21 witness: the last check of Observed removed an aged-out timestamp and
\* left only fresh ones, while the window of the other client, not checked
\* since, still holds a timestamp older than (now - window)
C21_Witness ==
    /\ restoredObs >= 1
    /\ windows[Observed] # <<>>
    /\ \A i \in DOMAIN windows[Observed] :
          windows[Observed][i] > rlNow - rlConfig.window_seconds
    /\ \E i \in DOMAIN windows["a"] :
          windows["a"][i] < rlNow - rlConfig.window_seconds

\* C22: with a cleanup interval above 0, at most one of the cleanup calls
\* made at one time scans; a step that removes a window or moves the
\* last-cleanup time is made when the interval has elapsed since the last
\* scan, and sets the last-cleanup time to the current time; so two scans
\* are at least one interval apart and a call made earlier removes nothing.
C22_CleanupThrottling ==
    /\ [](cleanupInterval > 0 => scansNow <= 1)
    /\ [](lastCleanup <= rlNow)
    /\ [][(lastCleanup' # lastCleanup \/ scansNow' > scansNow
           \/ \E c \in winKeys : c \notin winKeys') =>
             /\ rlNow - lastCleanup >= cleanupInterval
             /\ lastCleanup' = rlNow
             /\ rlNow' = rlNow]_vars

\* C22 witness: with an interval of 2 a scan was made at the current time,
\* the first since construction, and it removed the idle window of Observed
C22_Witness ==
    /\ cleanupInterval = 2
    /\ scansNow = 1
    /\ lastCleanup = rlNow
    /\ outObs = "admit"
    /\ Observed \notin winKeys

\* C23: a call whose timeout enforcement is disabled, whose resolved
\* timeout is 0, or whose method is one of the fixed infrastructure methods
\* gets the continuation's handler, not a wrapper; no timer is armed for it
\* and it is never aborted, however long it runs and whatever deadline the
\* caller sent.
C23_TimeoutExemptions ==
    (tcall.pc # "idle" /\ (~tcall.enabled \/ tcall.server = 0 \/ tcall.skip)) =>
        /\ ~tcall.wrapped
        /\ ~tcall.armed
        /\ ~tcall.expired
        /\ tcall.aborts = <<>>
        /\ tcall.result \notin {"aborted", "none_returned", "cancelled"}

\* C23 witness: an infrastructure method with a server timeout of 1 and a
\* caller deadline of 1 ran for longer than both and returned its response
C23_Witness ==
    /\ tcall.enabled
    /\ tcall.skip
    /\ tcall.server = 1
    /\ tcall.remaining = [kind |-> "value", v |-> 1]
    /\ tcall.clock = MaxRun
    /\ tcall.result = "response"

\* the call the interceptor is following is exempt from rate limiting
ExemptCall(c) ==
    c.pc # "idle" /\ (c.method \in skip_methods \/ ~rlConfig.enabled)

\* C24: a call of an exempt method, and every call while the limiter is
\* disabled, gets the original handler, is never rejected whatever the
\* limit and the client's window, and none of its steps creates or changes
\* a client window.
C24_RateLimitExemptions ==
    /\ [](ExemptCall(rcall) =>
             /\ ~rcall.wrapped
             /\ rcall.pc \in {"handler", "done"}
             /\ rcall.invoked = 1
             /\ rcall.aborts = <<>>
             /\ rcall.result \in {"none", "response"})
    /\ [][(rcall' # rcall /\ ExemptCall(rcall')) =>
              UNCHANGED <<winKeys, windows>>]_vars

\* C24 witness: with the limiter enabled, a client that is refused any
\* further request got the response of an exempt method
C24_Witness ==
    /\ rlConfig.enabled
    /\ rcall.method \in skip_methods
    /\ rcall.client = Observed
    /\ rcall.result = "response"
    /\ ~Allowed(Observed, rcall.is_read)
    /\ windows[Observed] # <<>>

\* C25: the limit in the message of a RESOURCE_EXHAUSTED rejection is the
\* limit the call was checked against (the read or the write limit when
\* one applies to the call, else max_requests), and the window in it is
\* the configured window length.
C25_RejectionDiagnostics ==
    rcall.aborts # <<>> =>
        /\ rcall.msg_limit = rcall.limit
        /\ rcall.msg_window = rlConfig.window_seconds

\* the task registered under id is terminal, of the group asked for, and
\* its completion lies at least max_age back
DueForClearing(id, group_id, max_age) ==
    /\ StatusOf(id) \in Terminal
    /\ group_id = NoGroup \/ rec[tasks[id]].group_id = group_id
    /\ qnow - rec[tasks[id]].completed_at >= max_age

\* C28: clear_completed_tasks(group, max_age) makes absent exactly the ids
\* whose task is Completed or Failed, completed at least max_age ago and,
\* with a group given, of that group; every other id reports the status and
\* the record it had, and the FIFOs, the workers and the slots are as they
\* were.
C28_ClearCompleted ==
    [][\A g \in Groups \cup {NoGroup}, a \in 0..MaxQTime :
          clear_completed_tasks(g, a) =>
              /\ \A id \in TaskIds :
                    IF DueForClearing(id, g, a)
                    THEN tasks'[id] = 0
                    ELSE /\ tasks'[id] = tasks[id]
                         /\ tasks[id] # 0 => rec'[tasks[id]] = rec[tasks[id]]
              /\ UNCHANGED <<queues, wpc, wTask, wCoro, semValue, cancelReq,
                             running>>]_vars

\* C28 witness: a task completed at time 1 was cleared, and a task of the
\* other group, completed at time 0 and so older, is still registered: the
\* clearing named the group of the first
C28_Witness ==
    \E i, j \in DOMAIN rec :
        /\ rec[i].status \in Terminal
        /\ rec[i].completed_at = MaxQTime
        /\ tasks[rec[i].id] = 0
        /\ rec[j].status \in Terminal
        /\ rec[j].completed_at = 0
        /\ rec[j].group_id # rec[i].group_id
        /\ tasks[rec[j].id] = j

\* C27: a wait_for_task call for an id that is not registered returns
\* nothing; a call for a registered id returns the task, Completed or
\* Failed if the task was so at some time of the call, else Pending or
\* Processing and only with the timeout elapsed; no step of the call
\* changes anything of the queue.
C27_WaitFor ==
    /\ [](wcall.pc = "done" =>
             IF wcall.task = 0
             THEN wcall.returned = "absent"
             ELSE /\ wcall.returned = "task"
                  /\ wcall.reached => wcall.snapshot.status \in Terminal
                  /\ wcall.snapshot.status \notin Terminal =>
                        /\ wcall.snapshot.status \in {"pending", "processing"}
                        /\ wcall.timeout # NoTime
                        /\ wcall.elapsed >= wcall.timeout)
    /\ [][wcall'.pc # wcall.pc => UNCHANGED qvars]_vars

\* C29: the deferred work that AddMessages accepts goes through the Task
\* Queue: every accepted unit has a QueuedTask of its group, no two units
\* of one group run at the same time, and a unit that raised is reported
\* as a Failed task of its group.
C29_DeferredThroughQueue ==
    /\ \A g \in Groups :
          Cardinality({i \in DOMAIN bg : bg[i].group = g}) <=
              Cardinality({n \in DOMAIN rec : rec[n].group_id = g})
    /\ \A i, j \in DOMAIN bg :
          (i # j /\ bg[i].group = bg[j].group) =>
              ~(bg[i].state = "running" /\ bg[j].state = "running")
    /\ \A i \in DOMAIN bg :
          bg[i].state = "raised" =>
              \E n \in DOMAIN rec :
                  rec[n].group_id = bg[i].group /\ rec[n].status = "failed"

\* the call shape of a handler as the server sees it, "none" for an object
\* with none of the four behaviours
ShapeOf(h) ==
    IF h.unary_unary # NoBehaviour /\ ~h.request_streaming /\ ~h.response_streaming
    THEN "unary_unary"
    ELSE IF h.unary_stream # NoBehaviour /\ ~h.request_streaming /\ h.response_streaming
    THEN "unary_stream"
    ELSE IF h.stream_unary # NoBehaviour /\ h.request_streaming /\ ~h.response_streaming
    THEN "stream_unary"
    ELSE IF h.stream_stream # NoBehaviour /\ h.request_streaming /\ h.response_streaming
    THEN "stream_stream"
    ELSE "none"

\* C26: whichever of the five interceptors is asked, the handler it
\* returns has the call shape of the handler its continuation gave and the
\* same request deserializer and response serializer; None is returned for
\* None, and an object with none of the four behaviours is returned itself.
C26_CallShapeDispatch ==
    icall.depth > 0 =>
        IF icall.given.absent
        THEN icall.returned = AbsentHandler
        ELSE IF ShapeOf(icall.given) = "none"
        THEN icall.returned = icall.given
        ELSE /\ ~icall.returned.absent
             /\ ShapeOf(icall.returned) = ShapeOf(icall.given)
             /\ icall.returned.request_deserializer = icall.given.request_deserializer
             /\ icall.returned.response_serializer = icall.given.response_serializer

\* C26 witness: the tracing interceptor wrapped a server-streaming handler
\* that the error interceptor had wrapped, and the codecs, which differ
\* from each other, are those of the servicer's handler
C26_Witness ==
    /\ icall.depth = MaxChain
    /\ icall.policy = "tracing"
    /\ ShapeOf(icall.given) = "unary_stream"
    /\ icall.returned.unary_stream = <<"servicer", "error", "tracing">>
    /\ icall.returned.request_deserializer = "codec1"
    /\ icall.returned.response_serializer = "codec2"

\* the exception is of none of the classes the translation names
Unexpected(e) ==
    e.type \notin {"NodeNotFoundError", "EdgeNotFoundError", "ValueError",
                   "PermissionError", "NotImplementedError", "TimeoutError",
                   "RpcError"}

\* C30: a call whose handler raised an unexpected exception is answered
\* INTERNAL, and any two such calls are answered with the same status and
\* the same message, whatever the two exceptions were.
C30_NoInternalDetail ==
    \A k1, k2 \in 1..2 :
        (/\ ecalls[k1].pc = "done" /\ ecalls[k1].raised
         /\ ecalls[k2].pc = "done" /\ ecalls[k2].raised
         /\ Unexpected(ecalls[k1].exc) /\ Unexpected(ecalls[k2].exc)) =>
            /\ ecalls[k1].code = "INTERNAL"
            /\ ecalls[k1].code = ecalls[k2].code
            /\ ecalls[k1].message = ecalls[k2].message

\* C31: when shutdown returns without having cancelled a worker, every
\* task is Completed or Failed: none is left Pending.
C31_ShutdownDrains ==
    [][(sdpc \in {"idle", "waiting"} /\ sdpc' = "done") =>
          \A n \in DOMAIN rec' : rec'[n].status \in Terminal]_vars

\* C32: when a worker lets go of a task it had pulled from its FIFO, the
\* task is Completed or Failed; a worker cancelled while it waits for a
\* slot leaves its task Failed with the cancellation reason.
C32_NoPulledTaskDropped ==
    [][\A g \in Groups :
          (wTask[g] # 0 /\ wTask'[g] = 0) =>
              /\ rec'[wTask[g]].status \in Terminal
              /\ (cancelReq[g] /\ wpc[g] = "sem") =>
                    rec'[wTask[g]].error = "Task was cancelled"]_vars

StillInside(timestamps, now) ==
    SelectSeq(timestamps, LAMBDA ts : ts > now - rlConfig.window_seconds)

\* C34: a rejected check records nothing: the window of the client holds
\* afterwards the timestamps that were inside the trailing window before,
\* in the same order and no other, so the count inside the window and the
\* time at which the oldest of them ages out are as they were; no admitted
\* call is noted and no other window changes.
C34_RejectedNotRecorded ==
    [][\A c \in Clients, rd \in BOOLEAN :
          (rlConfig.enabled /\ is_allowed(c, rd) /\ ~Allowed(c, rd)) =>
              /\ windows'[c] = StillInside(windows[c], rlNow)
              /\ Len(StillInside(windows'[c], rlNow)) =
                    Len(StillInside(windows[c], rlNow))
              /\ admitted' = admitted
              /\ \A d \in Clients \ {c} : windows'[d] = windows[d]]_vars

\* C34 witness: Observed, admitted at times 0 and 1 against a limit of 2,
\* was rejected at time 1 and its window still holds those two timestamps
C34_Witness ==
    /\ rlConfig.enabled
    /\ rlConfig.max_requests = 2
    /\ rlConfig.read_max_requests = NoLimit
    /\ rlConfig.write_max_requests = NoLimit
    /\ rlNow = 1
    /\ windows[Observed] = <<0, 1>>
    /\ outObs = "reject"

\* the interceptors in the order claimed, the disabled ones left out
ClaimedOrder ==
    SelectSeq(<<"Auth", "RateLimit", "Logging", "Error", "Timeout", "Tracing">>,
              LAMBDA x : /\ x = "Auth" => server.auth
                         /\ x = "RateLimit" => server.rate_limit
                         /\ x = "Timeout" => server.timeouts)

\* C35: whatever the three enabled flags, the chain is Auth, RateLimit,
\* Logging, Error, Timeout, Tracing with the disabled ones left out, and a
\* call the rate limiter refused ends RESOURCE_EXHAUSTED without passing
\* through the error interceptor's wrapper.
C35_ChainOrder ==
    /\ server.interceptors = ClaimedOrder
    /\ pcall.status = "RESOURCE_EXHAUSTED" =>
          /\ "Error" \notin pcall.through
          /\ ~pcall.translated

\* C35 witness: with all three enabled, a call with valid credentials was
\* refused by the rate limiter
C35_Witness ==
    /\ server.auth /\ server.rate_limit /\ server.timeouts
    /\ Len(server.interceptors) = 6
    /\ pcall.creds = "valid"
    /\ pcall.status = "RESOURCE_EXHAUSTED"

\* the call's credentials are verified and the verification fails
FailsVerification(c) ==
    /\ server.auth
    /\ ~(server.skip_health_check /\ c.method \in HEALTH_CHECK_METHODS)
    /\ c.creds # "valid"

\* C36: with authentication enabled, a call whose credentials do not
\* verify ends UNAUTHENTICATED, has no wrapper of the rate limiter around
\* its handler, and none of its steps creates or changes a client window.
C36_UnauthenticatedNoCapacity ==
    /\ []((pcall.pc # "idle" /\ FailsVerification(pcall)) =>
             /\ pcall.base = "unauthenticated"
             /\ \A i \in DOMAIN pcall.wrappers : pcall.wrappers[i] # "RateLimit"
             /\ pcall.pc = "done" => pcall.status = "UNAUTHENTICATED")
    /\ [][(pcall' # pcall /\ FailsVerification(pcall')) =>
              UNCHANGED <<winKeys, windows, admitted>>]_vars

\* C36 witness: with authentication and rate limiting enabled, a client
\* with one admitted call left made a call without valid credentials, which
\* ended UNAUTHENTICATED, and still has that one call left
C36_Witness ==
    /\ server.auth /\ server.rate_limit
    /\ rlConfig.max_requests = MaxLimit
    /\ pcall.creds = "invalid"
    /\ pcall.method \notin server.skip_methods
    /\ pcall.status = "UNAUTHENTICATED"
    /\ Len(windows[pcall.client]) = MaxLimit - 1
    /\ Allowed(pcall.client, FALSE)

\* the limit of the class of a check, as the configuration gives it
LimitOfClass(is_read) ==
    ClassLimit(IF is_read THEN rlConfig.read_max_requests
               ELSE rlConfig.write_max_requests)

\* C37: a client has one window for its reads and its writes: a check is
\* admitted exactly when the number of the client's admitted checks in the
\* trailing window, reads and writes together, is below the limit of the
\* check's class, and that number never exceeds the larger of the read and
\* the write limit.
C37_SharedWindow ==
    /\ [][\A c \in Clients, rd \in BOOLEAN :
            (rlConfig.enabled /\ is_allowed(c, rd)) =>
               /\ (admitted'[c] = Append(admitted[c], rlNow))
                     <=> (Len(admitted[c]) < LimitOfClass(rd))
               /\ Len(admitted'[c]) <=
                     Max({LimitOfClass(TRUE), LimitOfClass(FALSE)})]_vars
    /\ [](\A c \in Clients : Len(windows[c]) >= Len(admitted[c]))

\* C37 witness: reads are held against 2 and writes against 1; Observed,
\* none of whose writes was ever admitted, has one admitted read in the
\* window, and its last check, a write, was rejected
C37_Witness ==
    /\ rlConfig.enabled
    /\ rlConfig.read_max_requests = 2
    /\ rlConfig.write_max_requests = 1
    /\ ~writeAdmitted
    /\ Len(admitted[Observed]) = 1
    /\ outObs = "reject"

\* C38: cleanup scans, wherever they fall between the admission checks, do
\* not change a decision: the timestamps a check counts in a client's window
\* are those of the client's admitted checks in the trailing window, which
\* no scan touches, and a scan that removes windows leaves the answer of
\* every check that could follow it as it was.
C38_CleanupInvisible ==
    /\ [](\A c \in Clients : Prune(windows[c], rlNow) = admitted[c])
    /\ [][(winKeys' # winKeys /\ winKeys' \subseteq winKeys) =>
            \A c \in Clients, rd \in BOOLEAN :
               /\ Allowed(c, rd)' = Allowed(c, rd)
               /\ \A k \in winKeys \ winKeys' :
                     Prune(windows[k], rlNow) = <<>>]_vars

\* C38 witness: Observed was rejected at a limit of 2, time went on, and a
\* scan has removed its window
C38_Witness ==
    /\ rlConfig.enabled
    /\ rlConfig.max_requests = 2
    /\ outObs = "reject"
    /\ scansNow = 1
    /\ Observed \notin winKeys

\* C39: whatever skip_methods list is configured, a call to a method of the
\* list, and a call to a health-check or reflection probe method, is not put
\* under the rate limiter's admission check.
C39_SkipMethodsAdditional ==
    (pcall.pc # "idle" /\ pcall.method \in server.configured \cup post_init({}))
        => \A i \in DOMAIN pcall.wrappers : pcall.wrappers[i] # "RateLimit"

====
